---- MODULE Spec2Model ----
(***************************************************************************)
(* Model of the payloadcms-client upsert / reconciliation engine.          *)
(*                                                                         *)
(* The remote Payload CMS backend is a set of collections, each an ordered *)
(* list of stored documents.  Every client method that performs a request  *)
(* is one step, so that the round trips of concurrent callers interleave.  *)
(***************************************************************************)
EXTENDS Integers, Sequences, FiniteSets, TLC

VARIABLES
    mode,       \* which top-level operation the callers run
    writers,    \* the callers that issue requests against the backend
    backend,    \* collection -> sequence of stored documents
    nextId,     \* the backend's next document id
    pc,         \* writer -> position inside upsert_by_field
    frame,      \* writer -> arguments and locals of upsert_by_field
    trace,      \* writer -> requests issued by the current top-level call
    calls,      \* number of top-level calls started so far
    ens,        \* arguments and locals of ensure_categories
    input,      \* the article file and the arguments of upload_article_from_file
    art,        \* locals of upload_article_from_file
    dir,        \* arguments and locals of upload_articles_from_directory
    client,     \* the fields of the PayloadRESTClient object
    cmd         \* the running client call, or the locals of the cleanup script

vars == <<mode, writers, backend, nextId, pc, frame, trace, calls, ens, input, art, dir,
          client, cmd>>

----------------------------------------------------------------------------
(* Bounds *)

MaxWriters == 2
MaxCalls == 2
MaxLabels == 3
MaxTags == 3
MaxText == 3
MaxFiles == 3
MaxRequests == 3
MaxDocs == 3
MaxPasses == 3
MaxEvents == 6

----------------------------------------------------------------------------
(* Optional values: Python's None and a present value *)

None == <<>>
Some(x) == <<x>>
IsSome(o) == o # None
The(o) == o[1]

(* Sequence helpers *)
SelectIdx(s, Test(_)) == {i \in 1..Len(s) : Test(s[i])}

(* Mappings with string keys: d[k] = v, and del d[k] *)
Put(d, k, v) == [x \in DOMAIN d \cup {k} |-> IF x = k THEN v ELSE d[x]]
Del(d, k) == [x \in DOMAIN d \ {k} |-> d[x]]
Has(d, k) == k \in DOMAIN d

----------------------------------------------------------------------------
(* The backend *)

AllWriters == 1..MaxWriters
Collections == {"docs", "posts", "media", "categories"}
Keys == {"k1", "k2"}

(* A stored document: the id the backend assigned (None for a document the *)
(* backend returns without one), its fields, and the writer whose request  *)
(* wrote it last (0: untouched since before any call).                     *)
Doc(id, fields, by) == [id |-> id, fields |-> fields, by |-> by]

HasField(fields, f, v) == f \in DOMAIN fields /\ fields[f] = v

(* GET collection?where[field][equals]=value: the stored documents whose   *)
(* field equals the value.                                                 *)
Matches(coll, f, v) == {i \in 1..Len(backend[coll]) : HasField(backend[coll][i].fields, f, v)}

(* PATCH: a partial update; the payload's fields replace the stored ones. *)
Merge(fields, payload) ==
    [f \in DOMAIN fields \cup DOMAIN payload |->
        IF f \in DOMAIN payload THEN payload[f] ELSE fields[f]]

(* POST collection: the backend stores the payload under a fresh id. *)
BackendCreate(coll, payload, w) ==
    /\ backend' = [backend EXCEPT ![coll] = Append(@, Doc(Some(nextId), payload, w))]
    /\ nextId' = nextId + 1

(* PATCH collection/id *)
BackendUpdate(coll, id, payload, w) ==
    /\ backend' = [backend EXCEPT ![coll] =
            [i \in 1..Len(@) |->
                IF @[i].id = Some(id)
                THEN [@[i] EXCEPT !.fields = Merge(@, payload), !.by = w]
                ELSE @[i]]]
    /\ UNCHANGED nextId

----------------------------------------------------------------------------
(* Text.  A string is a sequence of characters; the characters stand for   *)
(* the classes slugify tells apart.                                        *)

LowerChars == {"a", "b"}
UpperChars == {"A", "B"}
DigitChars == {"1"}
Whitespace == {" "}
EAcute == "e_acute"        \* U+00E9: NFKD gives "e" and a combining accent
SharpS == "sharp_s"        \* U+00DF: no ASCII decomposition
Alphabet == LowerChars \cup UpperChars \cup DigitChars \cup Whitespace
                \cup {"-", "_", "!", "/", EAcute, SharpS}

(* unicodedata.normalize("NFKD", c).encode("ascii", "ignore") *)
AsciiOf(c) ==
    IF c = EAcute THEN <<"e">>
    ELSE IF c = SharpS THEN <<>>
    ELSE <<c>>

(* str.lower *)
LowerOf(c) ==
    IF c = "A" THEN "a"
    ELSE IF c = "B" THEN "b"
    ELSE c

SlugValid(c) == c \in LowerChars \cup DigitChars \cup {"e", "-"}

RECURSIVE ToAscii(_)
ToAscii(s) == IF s = <<>> THEN <<>> ELSE AsciiOf(Head(s)) \o ToAscii(Tail(s))

Lowered(s) == [i \in 1..Len(s) |-> LowerOf(s[i])]

RECURSIVE DropWhile(_, _)
DropWhile(s, cs) ==
    IF s # <<>> /\ Head(s) \in cs THEN DropWhile(Tail(s), cs) ELSE s

Reverse(s) == [i \in 1..Len(s) |-> s[Len(s) + 1 - i]]

(* str.strip(chars) *)
StripChars(s, cs) == Reverse(DropWhile(Reverse(DropWhile(s, cs)), cs))

(* str.strip() *)
Strip(s) == StripChars(s, Whitespace)

(* _SLUG_INVALID_RE.sub("-", s): every run of characters outside           *)
(* [a-z0-9-] becomes one hyphen.                                           *)
RECURSIVE Hyphenated(_)
Hyphenated(s) ==
    IF s = <<>> THEN <<>>
    ELSE IF SlugValid(Head(s)) THEN <<Head(s)>> \o Hyphenated(Tail(s))
    ELSE <<"-">> \o Hyphenated(DropWhile(s, {c \in Alphabet : ~SlugValid(c)}))

(* re.sub(r"-+", "-", s) *)
RECURSIVE CollapseHyphens(_)
CollapseHyphens(s) ==
    IF s = <<>> THEN <<>>
    ELSE IF Head(s) = "-" THEN <<"-">> \o CollapseHyphens(DropWhile(s, {"-"}))
    ELSE <<Head(s)>> \o CollapseHyphens(Tail(s))

(* Mutant: the hyphens at the ends and the repeated hyphens stay *)
CleanedKeepingHyphens(s) == Hyphenated(Lowered(ToAscii(s)))

(* slugify: the value before the emptiness test *)
Cleaned(s) == CollapseHyphens(StripChars(Hyphenated(Lowered(ToAscii(s))), {"-"}))

(* slugify raises ValueError when the cleaned value is empty *)
SlugifyRaises(s) == Cleaned(s) = <<>>
slugify(s) == Cleaned(s)

(* A front-matter item that is not a string (a number) *)
NonString == <<"<int>">>
IsStr(x) == x # NonString

----------------------------------------------------------------------------
(* Requests, as recorded in a caller's trace *)

ReqList(coll, f, v, found) == [op |-> "list", coll |-> coll, field |-> f, value |-> v, found |-> found]
ReqCreate(coll, payload) == [op |-> "create", coll |-> coll, payload |-> payload]
ReqUpdate(coll, id, payload) == [op |-> "update", coll |-> coll, id |-> id, payload |-> payload]
ReqUpload(coll, name, data) == [op |-> "upload", coll |-> coll, name |-> name, data |-> data]

IdleFrame == [coll |-> "docs", field |-> "key", value |-> "k1", payload |-> [key |-> "k1"],
              ret |-> "branch", existing |-> None, result |-> None, error |-> "none"]

(* upload_article_from_file before it is called *)
NoInput == [file |-> <<>>, cfg |-> <<>>, runs |-> 0]
IdleArt == [pc |-> "idle", run |-> 0, prev |-> "none", slug |-> <<>>, payload |-> <<>>,
            names |-> <<>>, docs |-> <<>>, media |-> <<>>, error |-> "none", result |-> None]

(* upload_articles_from_directory before it is called *)
IdleDir == [pc |-> "idle", isDir |-> TRUE, tree |-> <<>>, recursive |-> TRUE,
            files |-> <<>>, idx |-> 0, results |-> <<>>, error |-> "none"]

(* PayloadRESTClient(base_url): no token, the default token type *)
IdleClient == [token |-> None, tokenType |-> "Bearer"]

(* No client call and no cleanup is running *)
IdleCmd == [pc |-> "idle"]

(* ensure_categories before it is called *)
IdleEns == [pc |-> "idle", input |-> <<>>, defaults |-> <<>>, unique |-> <<>>,
            idx |-> 0, results |-> <<>>, error |-> "none"]

----------------------------------------------------------------------------
(* PayloadRESTClient.upsert_by_field *)

(* Entry: the arguments are bound; the lookup has not been sent yet. *)
UpsertEnter(w, coll, f, v, payload) ==
    /\ pc[w] = "idle"
    /\ pc' = [pc EXCEPT ![w] = "lookup"]
    /\ frame' = [frame EXCEPT ![w] = [IdleFrame EXCEPT !.coll = coll, !.field = f,
                                        !.value = v, !.payload = payload]]

(* Entry of a direct find_first_by_field call. *)
FindEnter(w, coll, f, v) ==
    /\ pc[w] = "idle"
    /\ pc' = [pc EXCEPT ![w] = "lookup"]
    /\ frame' = [frame EXCEPT ![w] = [IdleFrame EXCEPT !.coll = coll, !.field = f,
                                        !.value = v, !.ret = "found"]]

(* _request: raise_for_status() raises on an error response. *)
RequestFails(w) ==
    /\ pc' = [pc EXCEPT ![w] = "failed"]
    /\ frame' = [frame EXCEPT ![w].error = "HTTPError"]
    /\ UNCHANGED <<backend, nextId, trace>>

(* Mutant: the lookup sends no where clause and takes any stored document *)
FindFirstIgnoresValue(w) ==
    /\ pc[w] = "lookup"
    /\ LET n == Len(backend[frame[w].coll]) IN
       /\ frame' = [frame EXCEPT ![w].existing =
                IF n = 0 THEN None ELSE Some(backend[frame[w].coll][1])]
       /\ trace' = [trace EXCEPT ![w] = Append(@, ReqList(frame[w].coll, frame[w].field, frame[w].value, n > 0))]
       /\ pc' = [pc EXCEPT ![w] = "branch"]
       /\ UNCHANGED <<backend, nextId>>
    /\ UNCHANGED <<client, cmd, dir, mode, writers, calls, ens, input, art>>

(* find_first_by_field: docs[0] of the list response, None when it is      *)
(* empty.  The order of the response is the backend's.                     *)
FindFirstByField(w) ==
    /\ pc[w] = "lookup"
    /\ LET m == Matches(frame[w].coll, frame[w].field, frame[w].value) IN
       \/ /\ m = {}
          /\ frame' = [frame EXCEPT ![w].existing = None]
          /\ trace' = [trace EXCEPT ![w] = Append(@, ReqList(frame[w].coll, frame[w].field, frame[w].value, FALSE))]
          /\ pc' = [pc EXCEPT ![w] = frame[w].ret]
          /\ UNCHANGED <<backend, nextId>>
       \/ /\ \E i \in m :
                frame' = [frame EXCEPT ![w].existing = Some(backend[frame[w].coll][i])]
          /\ trace' = [trace EXCEPT ![w] = Append(@, ReqList(frame[w].coll, frame[w].field, frame[w].value, TRUE))]
          /\ pc' = [pc EXCEPT ![w] = frame[w].ret]
          /\ UNCHANGED <<backend, nextId>>
       \/ RequestFails(w)
    /\ UNCHANGED <<client, cmd, dir, mode, writers, calls, ens, input, art>>

(* Mutant: a found document without an id falls through to the create *)
UpsertMissingIdCreates(w) ==
    /\ pc[w] = "branch"
    /\ IsSome(frame[w].existing)
    /\ The(frame[w].existing).id = None
    /\ BackendCreate(frame[w].coll, frame[w].payload, w)
    /\ trace' = [trace EXCEPT ![w] = Append(@, ReqCreate(frame[w].coll, frame[w].payload))]
    /\ pc' = [pc EXCEPT ![w] = "done"]
    /\ frame' = [frame EXCEPT ![w].result = Some(Doc(Some(nextId), frame[w].payload, 0))]
    /\ UNCHANGED <<client, cmd, dir, mode, writers, calls, ens, input, art>>

(* if existing: doc_id = existing.get("id"); if doc_id is None: raise *)
UpsertMissingId(w) ==
    /\ pc[w] = "branch"
    /\ IsSome(frame[w].existing)
    /\ The(frame[w].existing).id = None
    /\ pc' = [pc EXCEPT ![w] = "failed"]
    /\ frame' = [frame EXCEPT ![w].error = "ValueError"]
    /\ UNCHANGED <<client, cmd, dir, mode, writers, backend, nextId, trace, calls, ens, input, art>>

(* Mutant: the update goes to some stored document, not the found one *)
UpsertUpdateAnyDoc(w) ==
    /\ pc[w] = "branch"
    /\ IsSome(frame[w].existing)
    /\ The(frame[w].existing).id # None
    /\ \E i \in 1..Len(backend[frame[w].coll]) :
          /\ backend[frame[w].coll][i].id # None
          /\ LET id == The(backend[frame[w].coll][i].id) IN
             /\ BackendUpdate(frame[w].coll, id, frame[w].payload, w)
             /\ trace' = [trace EXCEPT ![w] = Append(@, ReqUpdate(frame[w].coll, id, frame[w].payload))]
             /\ pc' = [pc EXCEPT ![w] = "done"]
             /\ frame' = [frame EXCEPT ![w].result = Some(backend[frame[w].coll][i])]
    /\ UNCHANGED <<client, cmd, dir, mode, writers, calls, ens, input, art>>

(* return self.update_document(collection, doc_id, payload) *)
UpsertUpdate(w) ==
    /\ pc[w] = "branch"
    /\ IsSome(frame[w].existing)
    /\ The(frame[w].existing).id # None
    /\ LET id == The(The(frame[w].existing).id) IN
       \/ /\ BackendUpdate(frame[w].coll, id, frame[w].payload, w)
          /\ trace' = [trace EXCEPT ![w] = Append(@, ReqUpdate(frame[w].coll, id, frame[w].payload))]
          /\ pc' = [pc EXCEPT ![w] = "done"]
          /\ frame' = [frame EXCEPT ![w].result =
                Some(Doc(Some(id), Merge(The(frame[w].existing).fields, frame[w].payload), 0))]
       \/ RequestFails(w)
    /\ UNCHANGED <<client, cmd, dir, mode, writers, calls, ens, input, art>>

(* Mutant: the create is issued whatever the lookup returned *)
UpsertCreateAlways(w) ==
    /\ pc[w] = "branch"
    /\ BackendCreate(frame[w].coll, frame[w].payload, w)
    /\ trace' = [trace EXCEPT ![w] = Append(@, ReqCreate(frame[w].coll, frame[w].payload))]
    /\ pc' = [pc EXCEPT ![w] = "done"]
    /\ frame' = [frame EXCEPT ![w].result = Some(Doc(Some(nextId), frame[w].payload, 0))]
    /\ UNCHANGED <<client, cmd, dir, mode, writers, calls, ens, input, art>>

(* return self.create_document(collection, payload) *)
UpsertCreate(w) ==
    /\ pc[w] = "branch"
    /\ frame[w].existing = None
    /\ \/ /\ BackendCreate(frame[w].coll, frame[w].payload, w)
          /\ trace' = [trace EXCEPT ![w] = Append(@, ReqCreate(frame[w].coll, frame[w].payload))]
          /\ pc' = [pc EXCEPT ![w] = "done"]
          /\ frame' = [frame EXCEPT ![w].result = Some(Doc(Some(nextId), frame[w].payload, 0))]
       \/ RequestFails(w)
    /\ UNCHANGED <<client, cmd, dir, mode, writers, calls, ens, input, art>>

----------------------------------------------------------------------------
(* Callers of upsert_by_field on one collection *)

(* A caller passes any lookup value and any payload: the payload's own key *)
(* field is an argument independent of the lookup value.                   *)
UpsertCall(w) ==
    /\ mode = "upsert"
    /\ calls < MaxCalls
    /\ \E v \in Keys, pk \in Keys :
          UpsertEnter(w, "docs", "key", v, [key |-> pk, val |-> "new"])
    /\ trace' = [trace EXCEPT ![w] = <<>>]
    /\ calls' = calls + 1
    /\ UNCHANGED <<client, cmd, dir, mode, writers, backend, nextId, ens, input, art>>

(* The call has returned or raised; the caller's locals are dropped. *)
UpsertReturn(w) ==
    /\ mode = "upsert"
    /\ pc[w] \in {"done", "failed"}
    /\ pc' = [pc EXCEPT ![w] = "idle"]
    /\ frame' = [frame EXCEPT ![w] = IdleFrame]
    /\ trace' = [trace EXCEPT ![w] = <<>>]
    /\ UNCHANGED <<client, cmd, dir, mode, writers, backend, nextId, calls, ens, input, art>>

(* The collection before any call: at most one document per key value,    *)
(* each with or without an id.                                            *)
InitialDocs ==
    {s \in UNION {[1..n -> Keys \X BOOLEAN] : n \in 0..Cardinality(Keys)} :
        \A i, j \in DOMAIN s : i < j => s[i][1] # s[j][1]}

InitialBackend(s) ==
    [c \in Collections |->
        IF c = "docs"
        THEN [i \in DOMAIN s |->
                Doc(IF s[i][2] THEN Some(i) ELSE None, [key |-> s[i][1], val |-> "old"], 0)]
        ELSE <<>>]

InitUpsert ==
    /\ mode = "upsert"
    /\ writers \in {1..n : n \in 1..MaxWriters}
    /\ \E s \in InitialDocs :
          /\ backend = InitialBackend(s)
          /\ nextId = Len(s) + 1
    /\ pc = [w \in AllWriters |-> "idle"]
    /\ frame = [w \in AllWriters |-> IdleFrame]
    /\ trace = [w \in AllWriters |-> <<>>]
    /\ calls = 0
    /\ ens = IdleEns
    /\ client = IdleClient
    /\ cmd = IdleCmd
    /\ dir = IdleDir
    /\ input = NoInput
    /\ art = IdleArt

NextUpsert ==
    \/ \E w \in writers : UpsertCall(w)
    \/ \E w \in writers : FindFirstByField(w)
    \/ \E w \in writers : UpsertMissingId(w)
    \/ \E w \in writers : UpsertUpdate(w)
    \/ \E w \in writers : UpsertCreate(w)
    \/ \E w \in writers : UpsertReturn(w)

Spec == InitUpsert /\ [][NextUpsert]_vars

----------------------------------------------------------------------------
(* ensure_categories *)

(* Mutant: unique[slug] = label, so that the last label seen stays *)
SetLast(unique, slug, label) ==
    IF \E i \in 1..Len(unique) : unique[i].slug = slug
    THEN [i \in 1..Len(unique) |->
            IF unique[i].slug = slug THEN [slug |-> slug, label |-> label] ELSE unique[i]]
    ELSE Append(unique, [slug |-> slug, label |-> label])

(* OrderedDict.setdefault(slug, label): the first label seen for a slug    *)
(* stays.                                                                  *)
SetDefault(unique, slug, label) ==
    IF \E i \in 1..Len(unique) : unique[i].slug = slug
    THEN unique
    ELSE Append(unique, [slug |-> slug, label |-> label])

(* Mutant: a bad label is skipped instead of raising *)
RECURSIVE UniqueCategoriesSkippingBad(_, _)
UniqueCategoriesSkippingBad(names, unique) ==
    IF names = <<>> THEN [error |-> "none", unique |-> unique]
    ELSE IF ~IsStr(Head(names)) \/ Strip(Head(names)) = <<>>
              \/ SlugifyRaises(Strip(Head(names)))
    THEN UniqueCategoriesSkippingBad(Tail(names), unique)
    ELSE UniqueCategoriesSkippingBad(Tail(names),
            SetDefault(unique, slugify(Strip(Head(names))), Strip(Head(names))))

(* The validation loop over the labels, left to right: the error of the    *)
(* first bad label, or the unique categories.                              *)
RECURSIVE UniqueCategories(_, _)
UniqueCategories(names, unique) ==
    IF names = <<>> THEN [error |-> "none", unique |-> unique]
    ELSE IF ~IsStr(Head(names)) THEN [error |-> "TypeError", unique |-> unique]
    ELSE IF Strip(Head(names)) = <<>> THEN [error |-> "ValueError", unique |-> unique]
    ELSE IF SlugifyRaises(Strip(Head(names))) THEN [error |-> "ValueError", unique |-> unique]
    ELSE UniqueCategories(Tail(names),
            SetDefault(unique, slugify(Strip(Head(names))), Strip(Head(names))))

(* Entry: the arguments are bound. *)
EnsureEnter(names, defaults) ==
    /\ ens.pc = "idle"
    /\ ens' = [IdleEns EXCEPT !.pc = "validate", !.input = names, !.defaults = defaults]

EnsureValidate ==
    /\ ens.pc = "validate"
    /\ LET u == UniqueCategories(ens.input, <<>>) IN
       ens' = IF u.error = "none"
              THEN [ens EXCEPT !.pc = "loop", !.unique = u.unique, !.idx = 1]
              ELSE [ens EXCEPT !.pc = "failed", !.error = u.error]
    /\ UNCHANGED <<client, cmd, dir, mode, writers, backend, nextId, pc, frame, trace, calls, input, art>>

(* payload = {**defaults, slug_field: slug, label_field: label} *)
CategoryPayload(defaults, c) ==
    Merge(defaults, [slug |-> c.slug, title |-> c.label])

(* client.upsert_by_field(collection, slug_field, slug, payload) *)
EnsureUpsert ==
    /\ ens.pc = "loop"
    /\ ens.idx <= Len(ens.unique)
    /\ UpsertEnter(1, "categories", "slug", ens.unique[ens.idx].slug,
                   CategoryPayload(ens.defaults, ens.unique[ens.idx]))
    /\ ens' = [ens EXCEPT !.pc = "wait"]
    /\ UNCHANGED <<client, cmd, dir, mode, writers, backend, nextId, trace, calls, input, art>>

(* results.append(document), or the upsert's exception propagates *)
EnsureCollect ==
    /\ ens.pc = "wait"
    /\ pc[1] \in {"done", "failed"}
    /\ ens' = IF pc[1] = "done"
              THEN [ens EXCEPT !.pc = "loop", !.idx = @ + 1,
                               !.results = Append(@, The(frame[1].result))]
              ELSE [ens EXCEPT !.pc = "failed", !.error = frame[1].error]
    /\ pc' = [pc EXCEPT ![1] = "idle"]
    /\ frame' = [frame EXCEPT ![1] = IdleFrame]
    /\ UNCHANGED <<client, cmd, dir, mode, writers, backend, nextId, trace, calls, input, art>>

(* return results *)
EnsureFinish ==
    /\ ens.pc = "loop"
    /\ ens.idx > Len(ens.unique)
    /\ ens' = [ens EXCEPT !.pc = "done"]
    /\ UNCHANGED <<client, cmd, dir, mode, writers, backend, nextId, pc, frame, trace, calls, input, art>>

----------------------------------------------------------------------------
(* Values of front-matter fields and of the article payload.  A text field *)
(* (slug, title, a category label) is a string or NonString; the category *)
(* and featured-image fields carry their kind, so that an id the backend   *)
(* returned is told apart from what the front matter held.                 *)

StrVal(s) == [t |-> "str", v |-> s]
IntVal == [t |-> "int", v |-> "7"]
ListVal(items) == [t |-> "list", v |-> items]
IdVal(id) == [t |-> "id", v |-> id]
IdsVal(ids) == [t |-> "ids", v |-> ids]

(* _slugify_path: split on runs of / and \, slugify each part, join by /.  *)
(* Parts(s, cur) are the non-empty components of s.                        *)
RECURSIVE Parts(_, _)
Parts(s, cur) ==
    IF s = <<>> THEN (IF cur = <<>> THEN <<>> ELSE <<cur>>)
    ELSE IF Head(s) \in {"/", "\\"}
         THEN (IF cur = <<>> THEN <<>> ELSE <<cur>>) \o Parts(Tail(s), <<>>)
         ELSE Parts(Tail(s), Append(cur, Head(s)))

RECURSIVE JoinSlugs(_)
JoinSlugs(parts) ==
    IF parts = <<>> THEN <<>>
    ELSE IF Len(parts) = 1 THEN slugify(parts[1])
    ELSE slugify(parts[1]) \o <<"/">> \o JoinSlugs(Tail(parts))

SlugifyPathRaises(s) == \E i \in 1..Len(Parts(s, <<>>)) : SlugifyRaises(Parts(s, <<>>)[i])
SlugifyPath(s) == JoinSlugs(Parts(s, <<>>))

(* ArticlePayloadBuilder.build with the default builder (no defaults, raw  *)
(* HTML body): the slug used for the lookup and the payload.               *)
Build(meta, body) ==
    IF Has(meta, "slug") /\ IsStr(meta.slug) /\ Strip(meta.slug) # <<>>
    THEN [error |-> "none", slug |-> Strip(meta.slug),
          payload |-> Put(meta, "content", Strip(body))]
    ELSE IF ~(Has(meta, "title") /\ IsStr(meta.title) /\ Strip(meta.title) # <<>>)
    THEN [error |-> "ValueError", slug |-> <<>>, payload |-> meta]
    ELSE IF SlugifyRaises(Strip(meta.title))
    THEN [error |-> "ValueError", slug |-> <<>>, payload |-> meta]
    ELSE [error |-> "none", slug |-> slugify(Strip(meta.title)),
          payload |-> Put(Put(meta, "slug", slugify(Strip(meta.title))),
                          "content", Strip(body))]

(* The slug_prefix block: slug = f"{normalized_prefix}-{filename_slug}" *)
Prefixed(b, prefix, stem) ==
    IF b.error # "none" \/ prefix = None \/ The(prefix) = <<>> THEN b
    ELSE IF SlugifyPathRaises(The(prefix)) \/ SlugifyRaises(stem)
    THEN [b EXCEPT !.error = "ValueError"]
    ELSE LET slug == SlugifyPath(The(prefix)) \o <<"-">> \o slugify(stem)
         IN [b EXCEPT !.slug = slug, !.payload = Put(b.payload, "slug", slug)]

----------------------------------------------------------------------------
(* upload_article_from_file: parsing, building, category resolution *)

(* The top-level caller runs the operation on the same file again. *)
ArticleCall ==
    /\ mode = "article"
    /\ art.pc \in {"idle", "done", "failed"}
    /\ art.run < input.runs
    /\ art' = [IdleArt EXCEPT !.pc = "build", !.run = art.run + 1,
                              !.prev = IF art.pc = "idle" THEN "none" ELSE art.pc]
    /\ trace' = [trace EXCEPT ![1] = <<>>]
    /\ UNCHANGED <<client, cmd, dir, mode, writers, backend, nextId, pc, frame, calls, ens, input>>

(* parse_article_file, builder.build and the slug prefix *)
ArticleBuild ==
    /\ art.pc = "build"
    /\ LET b == Prefixed(Build(input.file.meta, input.file.body),
                         input.cfg.slugPrefix, input.file.stem)
       IN art' = IF b.error = "none"
                 THEN [art EXCEPT !.pc = "categories", !.slug = b.slug, !.payload = b.payload]
                 ELSE [art EXCEPT !.pc = "failed", !.error = b.error]
    /\ UNCHANGED <<client, cmd, dir, mode, writers, backend, nextId, pc, frame, trace, calls, ens, input>>

(* category_names = [item for item in category_value if isinstance(item, str)] *)
StrItems(items) == SelectSeq(items, IsStr)

(* Whether the category block resolves anything: the field is configured,  *)
(* present, a list, and holds at least one string.                         *)
ResolvesCategories(cfg, payload) ==
    /\ cfg.catField # None
    /\ Has(payload, The(cfg.catField))
    /\ payload[The(cfg.catField)].t = "list"
    /\ StrItems(payload[The(cfg.catField)].v) # <<>>

Hierarchical(cfg, names) ==
    cfg.parentField # None /\ Len(names) > cfg.skipFirst + 1

(* ids of the returned documents that have one *)
RECURSIVE DocIds(_)
DocIds(docs) ==
    IF docs = <<>> THEN <<>>
    ELSE (IF Head(docs).id # None THEN <<The(Head(docs).id)>> ELSE <<>>) \o DocIds(Tail(docs))

(* Mutant: the labels stay in the payload *)
WithCategoryLabels(cfg, payload, docs) == payload

(* payload[category_field] = category_ids, under the output name if given *)
WithCategoryIds(cfg, payload, docs) ==
    LET cf == The(cfg.catField) IN
    IF cfg.catOut # None /\ The(cfg.catOut) # cf
    THEN Put(Del(payload, cf), The(cfg.catOut), IdsVal(DocIds(docs)))
    ELSE Put(payload, cf, IdsVal(DocIds(docs)))

(* The category block up to its first ensure_categories call *)
ArticleCategories ==
    /\ art.pc = "categories"
    /\ IF ResolvesCategories(input.cfg, art.payload)
       THEN LET names == StrItems(art.payload[The(input.cfg.catField)].v) IN
            IF Hierarchical(input.cfg, names)
            THEN /\ EnsureEnter(<<names[input.cfg.skipFirst + 1]>>, input.cfg.catDefaults)
                 /\ art' = [art EXCEPT !.pc = "cat_parent", !.names = names]
            ELSE /\ EnsureEnter(names, input.cfg.catDefaults)
                 /\ art' = [art EXCEPT !.pc = "cat_flat", !.names = names]
       ELSE /\ art' = [art EXCEPT !.pc = "media"]
            /\ UNCHANGED ens
    /\ UNCHANGED <<client, cmd, dir, mode, writers, backend, nextId, pc, frame, trace, calls, input>>

(* Mutant: the child is ensured without the parent's id *)
ArticleParentDoneUnlinked ==
    /\ art.pc = "cat_parent"
    /\ ens.pc = "done"
    /\ ens' = [IdleEns EXCEPT !.pc = "validate",
                              !.input = <<art.names[input.cfg.skipFirst + 2]>>,
                              !.defaults = input.cfg.catDefaults]
    /\ art' = [art EXCEPT !.pc = "cat_child", !.docs = ens.results]
    /\ UNCHANGED <<client, cmd, dir, mode, writers, backend, nextId, pc, frame, trace, calls, input>>

(* parent_docs is back: the child is ensured with the parent's id *)
ArticleParentDone ==
    /\ art.pc = "cat_parent"
    /\ ens.pc = "done"
    /\ LET parentId == ens.results[1].id
           childDefaults == IF parentId # None
                            THEN Put(input.cfg.catDefaults, The(input.cfg.parentField), The(parentId))
                            ELSE input.cfg.catDefaults
       IN ens' = [IdleEns EXCEPT !.pc = "validate",
                                 !.input = <<art.names[input.cfg.skipFirst + 2]>>,
                                 !.defaults = childDefaults]
    /\ art' = [art EXCEPT !.pc = "cat_child", !.docs = ens.results]
    /\ UNCHANGED <<client, cmd, dir, mode, writers, backend, nextId, pc, frame, trace, calls, input>>

(* child_docs is back: the remaining names, if any, are ensured *)
ArticleChildDone ==
    /\ art.pc = "cat_child"
    /\ ens.pc = "done"
    /\ LET remaining == SubSeq(art.names, input.cfg.skipFirst + 3, Len(art.names))
           docs == art.docs \o ens.results
       IN IF remaining # <<>>
          THEN /\ ens' = [IdleEns EXCEPT !.pc = "validate", !.input = remaining,
                                         !.defaults = input.cfg.catDefaults]
               /\ art' = [art EXCEPT !.pc = "cat_rest", !.docs = docs]
          ELSE /\ ens' = IdleEns
               /\ art' = [art EXCEPT !.pc = "media", !.docs = docs,
                            !.payload = WithCategoryIds(input.cfg, art.payload, docs)]
    /\ UNCHANGED <<client, cmd, dir, mode, writers, backend, nextId, pc, frame, trace, calls, input>>

(* The last ensure_categories call is back: the ids replace the labels *)
ArticleCategoriesDone ==
    /\ art.pc \in {"cat_flat", "cat_rest"}
    /\ ens.pc = "done"
    /\ LET docs == art.docs \o ens.results
       IN art' = [art EXCEPT !.pc = "media", !.docs = docs,
                    !.payload = WithCategoryIds(input.cfg, art.payload, docs)]
    /\ ens' = IdleEns
    /\ UNCHANGED <<client, cmd, dir, mode, writers, backend, nextId, pc, frame, trace, calls, input>>

(* Mutant: an exception of ensure_categories is swallowed *)
ArticleCategoriesFailedIgnored ==
    /\ art.pc \in {"cat_flat", "cat_parent", "cat_child", "cat_rest"}
    /\ ens.pc = "failed"
    /\ art' = [art EXCEPT !.pc = "media", !.error = ens.error]
    /\ ens' = IdleEns
    /\ UNCHANGED <<client, cmd, dir, mode, writers, backend, nextId, pc, frame, trace, calls, input>>

(* An exception of ensure_categories propagates out of the operation *)
ArticleCategoriesFailed ==
    /\ art.pc \in {"cat_flat", "cat_parent", "cat_child", "cat_rest"}
    /\ ens.pc = "failed"
    /\ art' = [art EXCEPT !.pc = "failed", !.error = ens.error]
    /\ ens' = IdleEns
    /\ UNCHANGED <<client, cmd, dir, mode, writers, backend, nextId, pc, frame, trace, calls, input>>

----------------------------------------------------------------------------
(* _ensure_featured_image *)

(* The featured-image paths of the model and what pathlib makes of them *)
BlankPath == "  "
ImagePaths == {"/img/a-b.webp", "a_b.webp", "gone.webp", BlankPath}

(* value.lstrip("/\\") *)
Cleaned_(path) == IF path = "/img/a-b.webp" THEN "img/a-b.webp" ELSE path
(* Path.name *)
NameOf(path) == IF path = "/img/a-b.webp" THEN "a-b.webp" ELSE path
(* Path.stem *)
StemOf(path) ==
    IF path = "/img/a-b.webp" THEN <<"a", "-", "b">>
    ELSE IF path = "a_b.webp" THEN <<"a", "_", "b">>
    ELSE <<"b">>

(* The files on disk: <<directory, relative path>> *)
FilesOnDisk == {<<"cwd", "a_b.webp">>, <<"article_dir", "img/a-b.webp">>,
                <<"media_root", "img/a-b.webp">>}

(* _resolve_featured_image_path: the literal path, then media_root, then    *)
(* the article's directory; None when the file is nowhere.                 *)
ResolveImagePath(path, mediaRoot) ==
    IF <<"cwd", path>> \in FilesOnDisk THEN Some(path)
    ELSE IF mediaRoot # None /\ <<The(mediaRoot), Cleaned_(path)>> \in FilesOnDisk THEN Some(path)
    ELSE IF <<"article_dir", Cleaned_(path)>> \in FilesOnDisk THEN Some(path)
    ELSE None

(* str.upper on one character *)
UpperOf(c) ==
    IF c = "a" THEN "A"
    ELSE IF c = "b" THEN "B"
    ELSE c

IsLetter(c) == c \in LowerChars \cup UpperChars

(* stem.replace("-", " ").replace("_", " ").title() *)
Readable(stem) ==
    LET spaced == [i \in 1..Len(stem) |-> IF stem[i] \in {"-", "_"} THEN " " ELSE stem[i]]
    IN [i \in 1..Len(spaced) |->
            IF i = 1 \/ ~IsLetter(spaced[i - 1]) THEN UpperOf(spaced[i]) ELSE LowerOf(spaced[i])]

(* The keys of media_defaults that go to the follow-up update *)
AltCaptionKeys == {"alt", "caption"}

(* upload_payload: the defaults that are neither alt nor caption *)
UploadPayload(defaults) == [k \in DOMAIN defaults \ AltCaptionKeys |-> defaults[k]]

(* The companion suffixes, in the order the code applies them *)
CompanionSuffixes == <<"alt", "caption", "Alt", "Caption">>
CompanionKey(field, suffix) ==
    IF suffix = "alt" THEN "featuredImagealt"
    ELSE IF suffix = "caption" THEN "featuredImagecaption"
    ELSE IF suffix = "Alt" THEN "featuredImageAlt"
    ELSE "featuredImageCaption"
MediaField(suffix) == IF suffix \in {"alt", "Alt"} THEN "alt" ELSE "caption"

RECURSIVE WithCompanions(_, _, _, _)
WithCompanions(ac, payload, field, suffixes) ==
    IF suffixes = <<>> THEN ac
    ELSE WithCompanions(
            IF Has(payload, CompanionKey(field, Head(suffixes)))
            THEN Put(ac, MediaField(Head(suffixes)), payload[CompanionKey(field, Head(suffixes))])
            ELSE ac,
            payload, field, Tail(suffixes))

(* The filename fallback for a key that is missing or falsy *)
WithFallback(ac, key, stem) ==
    IF ~Has(ac, key) \/ ac[key] = <<>> THEN Put(ac, key, Readable(stem)) ELSE ac

(* _text_to_lexical *)
TextToLexical(text) == [lexical |-> text]

(* alt_caption_payload as sent by the follow-up update *)
AltCaptionPayload(defaults, payload, field, stem) ==
    LET fromDefaults == [k \in DOMAIN defaults \cap AltCaptionKeys |-> defaults[k]]
        ac == WithFallback(
                WithFallback(WithCompanions(fromDefaults, payload, field, CompanionSuffixes),
                             "alt", stem),
                "caption", stem)
    IN [ac EXCEPT !["caption"] = TextToLexical(@)]

(* The keyword arguments PayloadRESTClient.update_document accepts, and    *)
(* those the follow-up update passes.                                      *)
UpdateDocumentParams == {"collection", "doc_id", "payload"}
FollowUpUpdateArgs == {"collection", "doc_id", "payload", "depth"}

(* The featured-image block up to the media lookup *)
ArticleMedia ==
    /\ art.pc = "media"
    /\ LET field == input.cfg.imageField IN
       IF field # None /\ Has(art.payload, The(field))
       THEN LET value == art.payload[The(field)] IN
            IF value.t # "str" \/ value.v = BlankPath
            THEN /\ art' = [art EXCEPT !.pc = "media_done", !.media = [id |-> value]]
                 /\ UNCHANGED <<pc, frame>>
            ELSE IF ResolveImagePath(value.v, input.cfg.mediaRoot) = None
            THEN /\ art' = [art EXCEPT !.pc = "failed", !.error = "FileNotFoundError"]
                 /\ UNCHANGED <<pc, frame>>
            ELSE /\ FindEnter(1, "media", "filename", NameOf(value.v))
                 /\ art' = [art EXCEPT !.pc = "media_lookup",
                              !.media = [name |-> NameOf(value.v), stem |-> StemOf(value.v)]]
       ELSE /\ art' = [art EXCEPT !.pc = "upsert"]
            /\ UNCHANGED <<pc, frame>>
    /\ UNCHANGED <<client, cmd, dir, mode, writers, backend, nextId, trace, calls, ens, input>>

(* if existing: the found document's id is reused, or it has none *)
MediaExisting ==
    /\ art.pc = "media_lookup"
    /\ pc[1] = "found"
    /\ IsSome(frame[1].existing)
    /\ art' = IF The(frame[1].existing).id = None
              THEN [art EXCEPT !.pc = "failed", !.error = "ValueError"]
              ELSE [art EXCEPT !.pc = "media_done",
                               !.media = [id |-> IdVal(The(The(frame[1].existing).id))]]
    /\ pc' = [pc EXCEPT ![1] = "idle"]
    /\ frame' = [frame EXCEPT ![1] = IdleFrame]
    /\ UNCHANGED <<client, cmd, dir, mode, writers, backend, nextId, trace, calls, ens, input>>

(* The lookup request failed *)
MediaLookupFailed ==
    /\ art.pc = "media_lookup"
    /\ pc[1] = "failed"
    /\ art' = [art EXCEPT !.pc = "failed", !.error = frame[1].error]
    /\ pc' = [pc EXCEPT ![1] = "idle"]
    /\ frame' = [frame EXCEPT ![1] = IdleFrame]
    /\ UNCHANGED <<client, cmd, dir, mode, writers, backend, nextId, trace, calls, ens, input>>

(* Step 1: client.upload_media(media_collection, resolved_path, data=...)  *)
MediaUpload ==
    /\ art.pc = "media_lookup"
    /\ pc[1] = "found"
    /\ frame[1].existing = None
    /\ pc' = [pc EXCEPT ![1] = "idle"]
    /\ frame' = [frame EXCEPT ![1] = IdleFrame]
    /\ LET data == UploadPayload(input.cfg.mediaDefaults) IN
       \/ /\ BackendCreate("media", Put(data, "filename", art.media.name), 1)
          /\ trace' = [trace EXCEPT ![1] = Append(@, ReqUpload("media", art.media.name, data))]
          /\ art' = [art EXCEPT !.pc = "media_update",
                       !.media = [name |-> art.media.name, id |-> IdVal(nextId),
                                  altCaption |-> AltCaptionPayload(input.cfg.mediaDefaults,
                                        art.payload, The(input.cfg.imageField), art.media.stem)]]
       \/ /\ art' = [art EXCEPT !.pc = "failed", !.error = "HTTPError"]
          /\ UNCHANGED <<backend, nextId, trace>>
    /\ UNCHANGED <<client, cmd, dir, mode, writers, calls, ens, input>>

(* Step 2: client.update_document(collection=, doc_id=, payload=, depth=): *)
(* a keyword the method does not take raises TypeError before any request. *)
MediaUpdate ==
    /\ art.pc = "media_update"
    /\ IF FollowUpUpdateArgs \subseteq UpdateDocumentParams
       THEN \/ /\ BackendUpdate("media", art.media.id.v, art.media.altCaption, 1)
               /\ trace' = [trace EXCEPT ![1] =
                        Append(@, ReqUpdate("media", art.media.id.v, art.media.altCaption))]
               /\ art' = [art EXCEPT !.pc = "media_done", !.media = [id |-> art.media.id]]
            \/ /\ art' = [art EXCEPT !.pc = "failed", !.error = "HTTPError"]
               /\ UNCHANGED <<backend, nextId, trace>>
       ELSE /\ art' = [art EXCEPT !.pc = "failed", !.error = "TypeError"]
            /\ UNCHANGED <<backend, nextId, trace>>
    /\ UNCHANGED <<client, cmd, dir, mode, writers, pc, frame, calls, ens, input>>

RECURSIVE WithoutCompanions(_, _, _)
WithoutCompanions(payload, field, suffixes) ==
    IF suffixes = <<>> THEN payload
    ELSE WithoutCompanions(Del(payload, CompanionKey(field, Head(suffixes))), field, Tail(suffixes))

(* Mutant: the source key stays next to the output name *)
WithMediaIdKeepingSource(cfg, payload, mediaId) ==
    LET field == The(cfg.imageField)
        stripped == WithoutCompanions(payload, field, CompanionSuffixes)
    IN IF cfg.imageOut # None
       THEN Put(stripped, The(cfg.imageOut), mediaId)
       ELSE Put(stripped, field, mediaId)

(* payload[featured_image_field] = media_id, under the output name if given *)
WithMediaId(cfg, payload, mediaId) ==
    LET field == The(cfg.imageField)
        stripped == WithoutCompanions(payload, field, CompanionSuffixes)
    IN IF cfg.imageOut # None /\ The(cfg.imageOut) # field
       THEN Put(Del(stripped, field), The(cfg.imageOut), mediaId)
       ELSE Put(stripped, field, mediaId)

(* _ensure_featured_image returned: companions are removed, the id is set *)
ArticleMediaDone ==
    /\ art.pc = "media_done"
    /\ art' = [art EXCEPT !.pc = "upsert", !.media = <<>>,
                 !.payload = WithMediaId(input.cfg, art.payload, art.media.id)]
    /\ UNCHANGED <<client, cmd, dir, mode, writers, backend, nextId, pc, frame, trace, calls, ens, input>>

(* return client.upsert_by_field(collection, slug_field, slug, payload) *)
ArticleUpsert ==
    /\ art.pc = "upsert"
    /\ UpsertEnter(1, "posts", "slug", art.slug, art.payload)
    /\ art' = [art EXCEPT !.pc = "article_wait"]
    /\ UNCHANGED <<client, cmd, dir, mode, writers, backend, nextId, trace, calls, ens, input>>

ArticleReturn ==
    /\ art.pc = "article_wait"
    /\ pc[1] \in {"done", "failed"}
    /\ art' = IF pc[1] = "done"
              THEN [art EXCEPT !.pc = "done", !.result = frame[1].result]
              ELSE [art EXCEPT !.pc = "failed", !.error = frame[1].error]
    /\ pc' = [pc EXCEPT ![1] = "idle"]
    /\ frame' = [frame EXCEPT ![1] = IdleFrame]
    /\ UNCHANGED <<client, cmd, dir, mode, writers, backend, nextId, trace, calls, ens, input>>

----------------------------------------------------------------------------
(* A caller of ensure_categories *)

LabelPool ==
    { <<"A">>, <<" ", "a", " ">>, <<"b">>, <<"B", "!">>,
      <<" ">>, <<"!">>, NonString }

LabelLists == UNION {[1..n -> LabelPool] : n \in 0..MaxLabels}

CategorySlugs == {<<"a">>, <<"b">>}

(* The categories collection before the call: per slug no document, one    *)
(* with an id, or one the backend returns without an id.                   *)
InitialCategories ==
    {s \in UNION {[1..n -> CategorySlugs \X BOOLEAN] : n \in 0..Cardinality(CategorySlugs)} :
        \A i, j \in DOMAIN s : i < j => s[i][1] # s[j][1]}

CategoryBackend(s) ==
    [c \in Collections |->
        IF c = "categories"
        THEN [i \in DOMAIN s |->
                Doc(IF s[i][2] THEN Some(i) ELSE None,
                    [slug |-> s[i][1], title |-> <<"o", "l", "d">>], 0)]
        ELSE <<>>]

EnsureCall ==
    /\ mode = "categories"
    /\ calls < 1
    /\ \E names \in LabelLists : EnsureEnter(names, [status |-> "published"])
    /\ calls' = calls + 1
    /\ UNCHANGED <<client, cmd, dir, mode, writers, backend, nextId, pc, frame, trace, input, art>>

InitCategories ==
    /\ mode = "categories"
    /\ writers = {1}
    /\ \E s \in InitialCategories :
          /\ backend = CategoryBackend(s)
          /\ nextId = Len(s) + 1
    /\ pc = [w \in AllWriters |-> "idle"]
    /\ frame = [w \in AllWriters |-> IdleFrame]
    /\ trace = [w \in AllWriters |-> <<>>]
    /\ calls = 0
    /\ ens = IdleEns
    /\ client = IdleClient
    /\ cmd = IdleCmd
    /\ dir = IdleDir
    /\ input = NoInput
    /\ art = IdleArt

NextCategories ==
    \/ EnsureCall
    \/ EnsureValidate
    \/ EnsureUpsert
    \/ FindFirstByField(1)
    \/ UpsertMissingId(1)
    \/ UpsertUpdate(1)
    \/ UpsertCreate(1)
    \/ EnsureCollect
    \/ EnsureFinish

SpecCategories == InitCategories /\ [][NextCategories]_vars

----------------------------------------------------------------------------
(* Callers of upload_article_from_file *)

TagPool == { <<"A">>, <<"a">>, <<"b">>, NonString }
TagLists == UNION {[1..n -> TagPool] : n \in 0..MaxTags}
TagValues == {ListVal(l) : l \in TagLists}

PlainSlug == <<"a", "1">>
PaddedSlug == <<" ", "a", "1">>
Title == <<"A", "b">>

Companions == [featuredImageAlt |-> <<"f", "m">>, featuredImagecaption |-> <<"c">>]
MediaDefaults == [alt |-> <<"d", "f">>, credit |-> <<"x">>]
(* A companion field that is present but empty *)
EmptyCompanion == [featuredImageAlt |-> <<>>]

(* Front matter: the title, and the optional fields that are present *)
MetaOf(slug, tags, image, companions) ==
    LET m0 == [title |-> Title]
        m1 == IF slug # None THEN Put(m0, "slug", The(slug)) ELSE m0
        m2 == IF tags # None THEN Put(m1, "tags", The(tags)) ELSE m1
        m3 == IF image # None THEN Put(m2, "featuredImage", The(image)) ELSE m2
    IN Merge(m3, companions)

FileOf(slug, tags, image, companions) ==
    [meta |-> MetaOf(slug, tags, image, companions), body |-> <<"b", " ">>, stem |-> <<"a">>]

CfgOf(catField, catOut, parentField, skipFirst, imageOut, mediaDefaults) ==
    [catField |-> catField, catOut |-> catOut, parentField |-> parentField,
     skipFirst |-> skipFirst, catDefaults |-> <<>>,
     imageField |-> Some("featuredImage"), imageOut |-> imageOut,
     mediaDefaults |-> mediaDefaults, mediaRoot |-> None, slugPrefix |-> None]

(* The parent-field / skip-count arguments *)
HierarchyArgs == {<<None, 0>>, <<Some("parent"), 0>>, <<Some("parent"), 1>>}

(* Articles that exercise the category block *)
CategoryInputs ==
    {[file |-> FileOf(Some(PlainSlug), Some(tags), image, <<>>),
      cfg |-> CfgOf(Some("tags"), catOut, h[1], h[2], None, <<>>),
      runs |-> 1] :
        tags \in TagValues, image \in {None},
        catOut \in {None, Some("categories")}, h \in HierarchyArgs}

(* Articles whose category field holds one string, not a list *)
ScalarTagInputs ==
    {[file |-> FileOf(Some(PlainSlug), Some(StrVal("A")), None, <<>>),
      cfg |-> CfgOf(Some("tags"), catOut, None, 0, None, <<>>),
      runs |-> 1] : catOut \in {None, Some("categories")}}

(* Articles that exercise the featured-image block *)
MediaInputs ==
    {[file |-> FileOf(slug, tags, image, companions),
      cfg |-> CfgOf(catField, None, None, 0, imageOut, mediaDefaults),
      runs |-> 1] :
        slug \in {None, Some(PlainSlug), Some(PaddedSlug)},
        tags \in {None, Some(ListVal(<<<<"b">>>>))},
        image \in {None, Some(IntVal)} \cup {Some(StrVal(q)) : q \in ImagePaths},
        companions \in {<<>>, Companions, EmptyCompanion},
        catField \in {None, Some("tags")},
        imageOut \in {None, Some("heroImage")},
        mediaDefaults \in {<<>>, MediaDefaults}}

(* Slug prefixes: one directory, two directories, separators only, and a   *)
(* directory name without any slug character                               *)
Prefixes == { <<"A">>, <<"A", "/", "b">>, <<"/">>, <<"!">> }

(* Articles uploaded with a slug prefix *)
PrefixInputs ==
    {[file |-> FileOf(slug, None, None, <<>>),
      cfg |-> [CfgOf(None, None, None, 0, None, <<>>) EXCEPT !.slugPrefix = Some(prefix)],
      runs |-> 1] :
        slug \in {None, Some(PlainSlug), Some(PaddedSlug)},
        prefix \in Prefixes}

(* Articles uploaded twice *)
RerunInputs ==
    {[file |-> FileOf(Some(slug), tags, image, <<>>),
      cfg |-> CfgOf(Some("tags"), None, parentField, 0, None, <<>>),
      runs |-> 2] :
        slug \in {PlainSlug, PaddedSlug},
        tags \in {None, Some(ListVal(<<<<"A">>, <<"b">>>>)),
                  Some(ListVal(<<<<"A">>, <<"a">>, <<"b">>>>))},
        image \in {None, Some(StrVal("/img/a-b.webp"))},
        parentField \in {None, Some("parent")}}

(* The slug the operation looks the article up by *)
LookupSlug(in) == Prefixed(Build(in.file.meta, in.file.body), in.cfg.slugPrefix, in.file.stem).slug

(* The backend before the first run: per collection no document, one with  *)
(* an id, or one the backend returns without an id.                        *)
Presence == {"absent", "id", "noid"}

StoredOne(presence, id, fields) ==
    IF presence = "absent" THEN <<>>
    ELSE <<Doc(IF presence = "id" THEN Some(id) ELSE None, fields, 0)>>

ArticleBackend(in, cats, media, posts) ==
    [c \in Collections |->
        IF c = "categories" THEN StoredOne(cats, 1, [slug |-> <<"a">>, title |-> <<"o">>])
        ELSE IF c = "media" THEN StoredOne(media, 2, [filename |-> "a-b.webp"])
                                    \o StoredOne(media, 3, [filename |-> "a_b.webp"])
        ELSE IF c = "posts" THEN StoredOne(posts, 4, [slug |-> LookupSlug(in), title |-> <<"o">>])
        ELSE <<>>]

(* The state before the first run, for the input chosen *)
ArticleStart(presences) ==
    /\ mode = "article"
    /\ writers = {1}
    /\ \E cats, media, posts \in presences :
          backend = ArticleBackend(input, cats, media, posts)
    /\ nextId = 5
    /\ pc = [w \in AllWriters |-> "idle"]
    /\ frame = [w \in AllWriters |-> IdleFrame]
    /\ trace = [w \in AllWriters |-> <<>>]
    /\ calls = 0
    /\ ens = IdleEns
    /\ client = IdleClient
    /\ cmd = IdleCmd
    /\ dir = IdleDir
    /\ art = IdleArt

NextArticle ==
    \/ ArticleCall
    \/ ArticleBuild
    \/ ArticleCategories
    \/ ArticleParentDone
    \/ ArticleChildDone
    \/ ArticleCategoriesDone
    \/ ArticleCategoriesFailed
    \/ EnsureValidate
    \/ EnsureUpsert
    \/ EnsureCollect
    \/ EnsureFinish
    \/ ArticleMedia
    \/ MediaExisting
    \/ MediaLookupFailed
    \/ MediaUpload
    \/ MediaUpdate
    \/ ArticleMediaDone
    \/ ArticleUpsert
    \/ ArticleReturn
    \/ FindFirstByField(1)
    \/ UpsertMissingId(1)
    \/ UpsertUpdate(1)
    \/ UpsertCreate(1)

ArticleInput(in) ==
    \/ in \in CategoryInputs
    \/ in \in ScalarTagInputs
    \/ in \in MediaInputs
    \/ in \in PrefixInputs
InitArticle == ArticleInput(input) /\ ArticleStart(Presence)
SpecArticle == InitArticle /\ [][NextArticle]_vars

RerunInput(in) == in \in RerunInputs
InitRerun == RerunInput(input) /\ ArticleStart(Presence)
SpecRerun == InitRerun /\ [][NextArticle]_vars

----------------------------------------------------------------------------
(* Callers of slugify: a text is slugified, and its slug is slugified      *)
(* again.                                                                  *)

Texts == UNION {[1..n -> Alphabet] : n \in 0..MaxText}

InitSlugify ==
    /\ mode = "slugify"
    /\ writers = {1}
    /\ input \in {[file |-> [text |-> x], cfg |-> <<>>, runs |-> 0] : x \in Texts}
    /\ backend = [c \in Collections |-> <<>>]
    /\ nextId = 1
    /\ pc = [w \in AllWriters |-> "idle"]
    /\ frame = [w \in AllWriters |-> IdleFrame]
    /\ trace = [w \in AllWriters |-> <<>>]
    /\ calls = 0
    /\ ens = IdleEns
    /\ client = IdleClient
    /\ cmd = IdleCmd
    /\ dir = IdleDir
    /\ art = IdleArt

(* slug = slugify(text), or the ValueError it raises *)
SlugifyCall ==
    /\ mode = "slugify"
    /\ art.pc = "idle"
    /\ art' = IF SlugifyRaises(input.file.text)
              THEN [art EXCEPT !.pc = "failed", !.error = "ValueError"]
              ELSE [art EXCEPT !.pc = "slugged", !.slug = slugify(input.file.text)]
    /\ UNCHANGED <<client, cmd, dir, mode, writers, backend, nextId, pc, frame, trace, calls, ens, input>>

(* slugify(slug): the first result is kept in art.slug, the second in      *)
(* art.payload                                                             *)
SlugifyAgain ==
    /\ mode = "slugify"
    /\ art.pc = "slugged"
    /\ art' = IF SlugifyRaises(art.slug)
              THEN [art EXCEPT !.pc = "failed", !.error = "ValueError"]
              ELSE [art EXCEPT !.pc = "reslugged", !.payload = slugify(art.slug)]
    /\ UNCHANGED <<client, cmd, dir, mode, writers, backend, nextId, pc, frame, trace, calls, ens, input>>

NextSlugify ==
    \/ SlugifyCall
    \/ SlugifyAgain

SpecSlugify == InitSlugify /\ [][NextSlugify]_vars

----------------------------------------------------------------------------
(* upload_articles_from_directory: paths, their order, the glob *)

(* A relative path is the sequence of its components, a component is a     *)
(* string.  Html is the suffix of the default pattern "*.html".            *)
Html == <<".", "h", "t", "m", "l">>

(* ord(c) for the characters of the file names of the model *)
CodePoint(c) ==
    CASE c = " " -> 32 [] c = "!" -> 33 [] c = "-" -> 45 [] c = "." -> 46
      [] c = "/" -> 47 [] c = "1" -> 49 [] c = "A" -> 65 [] c = "B" -> 66
      [] c = "_" -> 95 [] c = "a" -> 97 [] c = "b" -> 98 [] c = "h" -> 104
      [] c = "l" -> 108 [] c = "m" -> 109 [] c = "t" -> 116
      [] c = SharpS -> 223 [] c = EAcute -> 233

(* str.__lt__: by code point, a proper prefix first *)
RECURSIVE StrLess(_, _)
StrLess(s, t) ==
    IF t = <<>> THEN FALSE
    ELSE IF s = <<>> THEN TRUE
    ELSE IF Head(s) = Head(t) THEN StrLess(Tail(s), Tail(t))
    ELSE CodePoint(Head(s)) < CodePoint(Head(t))

(* PurePath.__lt__ on POSIX: the lists of components are compared, each    *)
(* component as a string.                                                  *)
RECURSIVE PathLess(_, _)
PathLess(p, q) ==
    IF q = <<>> THEN FALSE
    ELSE IF p = <<>> THEN TRUE
    ELSE IF Head(p) = Head(q) THEN PathLess(Tail(p), Tail(q))
    ELSE StrLess(Head(p), Head(q))

(* Mutant: the paths in descending order *)
RECURSIVE PathsDescending(_)
PathsDescending(S) ==
    IF S = {} THEN <<>>
    ELSE LET m == CHOOSE p \in S : \A q \in S \ {p} : PathLess(q, p)
         IN <<m>> \o PathsDescending(S \ {m})

(* sorted(paths) *)
RECURSIVE SortedPaths(_)
SortedPaths(S) ==
    IF S = {} THEN <<>>
    ELSE LET m == CHOOSE p \in S : \A q \in S \ {p} : PathLess(p, q)
         IN <<m>> \o SortedPaths(S \ {m})

(* fnmatch of a name against "*.html" *)
MatchesPattern(name) ==
    /\ Len(name) >= Len(Html)
    /\ SubSeq(name, Len(name) - Len(Html) + 1, Len(name)) = Html

(* root.glob("**/*.html") when recursive, root.glob("*.html") otherwise:   *)
(* the entries of the tree whose name matches, directories included.       *)
Glob(tree, recursive) ==
    {p \in DOMAIN tree : MatchesPattern(p[Len(p)]) /\ (recursive \/ Len(p) = 1)}

(* Path.stem of a name that ends in ".html" *)
PathStem(name) == SubSeq(name, 1, Len(name) - Len(Html))

(* relative.parent.as_posix(): the directories joined by "/" *)
RECURSIVE AsPosix(_)
AsPosix(parts) ==
    IF parts = <<>> THEN <<>>
    ELSE IF Len(parts) = 1 THEN parts[1]
    ELSE parts[1] \o <<"/">> \o AsPosix(Tail(parts))

(* slug_prefix: None for a file directly in the root *)
SlugPrefixOf(p) ==
    IF Len(p) = 1 THEN None ELSE Some(AsPosix(SubSeq(p, 1, Len(p) - 1)))

----------------------------------------------------------------------------
(* upload_articles_from_directory: the call and its loop *)

(* root.is_dir(), the glob, is_file() and sorted() *)
DirectoryCall ==
    /\ mode = "directory"
    /\ dir.pc = "idle"
    /\ dir' = IF ~dir.isDir
              THEN [dir EXCEPT !.pc = "raised", !.error = "ValueError"]
              ELSE [dir EXCEPT !.pc = "loop",
                      !.files = SortedPaths({p \in Glob(dir.tree, dir.recursive) :
                                                dir.tree[p].isFile})]
    /\ UNCHANGED <<client, cmd, mode, writers, backend, nextId, pc, frame, trace, calls, ens, input, art>>

(* The arguments of the call for one file: the file, and the keyword       *)
(* arguments handed through with the slug prefix of the file's folder.     *)
FileArgs(tree, p, cfg) ==
    [file |-> [meta |-> tree[p].meta, body |-> <<"b", " ">>, stem |-> PathStem(p[Len(p)])],
     cfg |-> [cfg EXCEPT !.slugPrefix = SlugPrefixOf(p)],
     runs |-> 0]

(* for path in files: ... upload_article_from_file(...) is entered *)
DirectoryNextFile ==
    /\ dir.pc = "loop"
    /\ dir.idx < Len(dir.files)
    /\ dir' = [dir EXCEPT !.pc = "file"]
    /\ input' = FileArgs(dir.tree, dir.files[dir.idx + 1], input.cfg)
    /\ art' = [IdleArt EXCEPT !.pc = "build", !.run = dir.idx + 1]
    /\ UNCHANGED <<client, cmd, mode, writers, backend, nextId, pc, frame, trace, calls, ens>>

(* results.append(response) *)
DirectoryAppend ==
    /\ dir.pc = "file"
    /\ art.pc = "done"
    /\ dir' = [dir EXCEPT !.pc = "loop", !.idx = dir.idx + 1,
                          !.results = Append(dir.results, The(art.result))]
    /\ art' = IdleArt
    /\ UNCHANGED <<client, cmd, mode, writers, backend, nextId, pc, frame, trace, calls, ens, input>>

(* An exception of upload_article_from_file leaves the loop and the call *)
DirectoryRaise ==
    /\ dir.pc = "file"
    /\ art.pc = "failed"
    /\ dir' = [dir EXCEPT !.pc = "raised", !.error = art.error]
    /\ art' = IdleArt
    /\ UNCHANGED <<client, cmd, mode, writers, backend, nextId, pc, frame, trace, calls, ens, input>>

(* return results *)
DirectoryReturn ==
    /\ dir.pc = "loop"
    /\ dir.idx = Len(dir.files)
    /\ dir' = [dir EXCEPT !.pc = "returned"]
    /\ UNCHANGED <<client, cmd, mode, writers, backend, nextId, pc, frame, trace, calls, ens, input, art>>

----------------------------------------------------------------------------
(* Callers of upload_articles_from_directory *)

(* The entries a directory of the model is made of: articles in the root,  *)
(* in folders one and two levels down, a folder whose name needs a hyphen, *)
(* an article whose stem has no slug character, a file the pattern does    *)
(* not match, and a folder whose name matches the pattern.                 *)
DiskPaths ==
    { << <<"B">> \o Html >>, << <<"a">> \o Html >>,
      << <<"a">>, <<"b">> \o Html >>, << <<"a">>, <<"b">>, <<"a">> \o Html >>,
      << <<"a", "-", "b">>, <<"a">> \o Html >>, << <<"a">>, <<"!">> \o Html >>,
      << <<"b", ".", "t">> >>, << <<"b">> \o Html >> }

EntryAt(p) ==
    IF p = << <<"b">> \o Html >> THEN [isFile |-> FALSE, meta |-> <<>>]
    ELSE [isFile |-> TRUE,
          meta |->
            IF p = << <<"a">> \o Html >>
            THEN MetaOf(Some(PlainSlug), Some(ListVal(<< <<"A">>, <<"b">> >>)),
                        Some(StrVal("a_b.webp")), <<>>)
            ELSE IF p = << <<"a">>, <<"b">> \o Html >>
            THEN MetaOf(None, Some(ListVal(<< <<"b">> >>)),
                        Some(StrVal("/img/a-b.webp")), <<>>)
            ELSE IF p = << <<"a">>, <<"b">>, <<"a">> \o Html >>
            THEN MetaOf(Some(PlainSlug), None, None, <<>>)
            ELSE MetaOf(None, None, None, <<>>)]

InitDirectory ==
    /\ mode = "directory"
    /\ writers = {1}
    /\ \E S \in SUBSET DiskPaths, r \in BOOLEAN, d \in BOOLEAN :
          /\ Cardinality(S) <= MaxFiles
          /\ (~d => S = {})
          /\ dir = [IdleDir EXCEPT !.tree = [p \in S |-> EntryAt(p)],
                                   !.recursive = r, !.isDir = d]
    (* the keyword arguments: no category field, flat categories, hierarchy *)
    /\ \E c \in { CfgOf(None, None, None, 0, None, <<>>),
                  CfgOf(Some("tags"), None, None, 0, None, <<>>),
                  CfgOf(Some("tags"), None, Some("parent"), 0, None, <<>>) } :
          input = [file |-> <<>>, cfg |-> c, runs |-> 0]
    /\ \E cats, media, posts \in Presence :
          backend = ArticleBackend(FileArgs([p \in DiskPaths |-> EntryAt(p)],
                                            << <<"a">> \o Html >>, input.cfg),
                                   cats, media, posts)
    /\ nextId = 5
    /\ pc = [w \in AllWriters |-> "idle"]
    /\ frame = [w \in AllWriters |-> IdleFrame]
    /\ trace = [w \in AllWriters |-> <<>>]
    /\ calls = 0
    /\ ens = IdleEns
    /\ client = IdleClient
    /\ cmd = IdleCmd
    /\ art = IdleArt

NextDirectory ==
    \/ DirectoryCall
    \/ DirectoryNextFile
    \/ DirectoryAppend
    \/ DirectoryRaise
    \/ DirectoryReturn
    \/ ArticleBuild
    \/ ArticleCategories
    \/ ArticleParentDone
    \/ ArticleChildDone
    \/ ArticleCategoriesDone
    \/ ArticleCategoriesFailed
    \/ EnsureValidate
    \/ EnsureUpsert
    \/ EnsureCollect
    \/ EnsureFinish
    \/ ArticleMedia
    \/ MediaExisting
    \/ MediaLookupFailed
    \/ MediaUpload
    \/ MediaUpdate
    \/ ArticleMediaDone
    \/ ArticleUpsert
    \/ ArticleReturn
    \/ FindFirstByField(1)
    \/ UpsertMissingId(1)
    \/ UpsertUpdate(1)
    \/ UpsertCreate(1)

SpecDirectory == InitDirectory /\ [][NextDirectory]_vars

----------------------------------------------------------------------------
(* PayloadRESTClient: headers, _request, login and the other public calls *)

(* The methods the class defines *)
ClientMethods ==
    {"list_documents", "find_first_by_field", "create_document", "login",
     "update_document", "upsert_by_field", "upload_media"}

(* if self.token: a token that is None or empty is not sent *)
Truthy(token) == token # None /\ The(token) # ""

(* Mutant: the token is never put into the headers *)
BuildHeadersWithoutToken(c, contentType) ==
    IF contentType # None
    THEN [Accept |-> "application/json", ContentType |-> The(contentType)]
    ELSE [Accept |-> "application/json"]

(* _build_headers without extra headers; the Authorization value         *)
(* f"{token_type} {token}" is the pair <<token_type, token>>.            *)
BuildHeaders(c, contentType) ==
    LET h0 == [Accept |-> "application/json"]
        h1 == IF contentType # None THEN Put(h0, "ContentType", The(contentType)) ELSE h0
    IN IF Truthy(c.token) THEN Put(h1, "Authorization", <<c.tokenType, The(c.token)>>)
       ELSE h1

(* What the session answers: an error status, 204, or 200 with a JSON    *)
(* object (with or without a "token" member) or a JSON list.             *)
Responses ==
    {[status |-> st, json |-> "object", token |-> None] : st \in {"error", "204"}}
      \cup {[status |-> "200", json |-> "list", token |-> None]}
      \cup {[status |-> "200", json |-> "object", token |-> t] :
                t \in {None, Some(""), Some("<number>"), Some("T1"), Some("T2")}}

(* _request: the request as the session sees it, with its answer *)
Sent(c, method, path, resp) ==
    [method |-> method, path |-> path,
     headers |-> BuildHeaders(c, Some("application/json")), response |-> resp]

(* The value _request returns or the exception it raises *)
RequestError(resp) == IF resp.status = "error" THEN "HTTPError" ELSE "none"

(* isinstance(token, str) and token *)
IsTokenString(t) == t # None /\ The(t) \notin {"", "<number>"}

(* _load_credentials_from_env and the resolution of email and password:  *)
(* the .env file is read only when an argument is None.                  *)
CredentialsError(email, password, env) ==
    IF email # None /\ password # None THEN "none"
    ELSE IF env = "both" THEN "none"
    ELSE "ValueError"

(* Mutant: the token of the response is stored before it is validated *)
LoginOutcomeStoringFirst(c, resp) ==
    IF resp.status = "error" THEN [error |-> "HTTPError", client |-> c]
    ELSE IF resp.status = "204" THEN [error |-> "ValueError", client |-> c]
    ELSE IF resp.json = "list" THEN [error |-> "AttributeError", client |-> c]
    ELSE IF ~IsTokenString(resp.token)
    THEN [error |-> "ValueError", client |-> [c EXCEPT !.token = resp.token]]
    ELSE [error |-> "none", client |-> [c EXCEPT !.token = resp.token]]

(* login after the request: response.get("token"), the test, self.token  *)
LoginOutcome(c, resp) ==
    IF resp.status = "error" THEN [error |-> "HTTPError", client |-> c]
    ELSE IF resp.status = "204" THEN [error |-> "ValueError", client |-> c]
    ELSE IF resp.json = "list" THEN [error |-> "AttributeError", client |-> c]
    ELSE IF ~IsTokenString(resp.token) THEN [error |-> "ValueError", client |-> c]
    ELSE [error |-> "none", client |-> [c EXCEPT !.token = resp.token]]

(* client.login("users", email=..., password=..., env_path=...) *)
Login ==
    /\ mode = "client"
    /\ calls < MaxRequests
    /\ calls' = calls + 1
    /\ \E email \in {None, Some("e")}, password \in {None, Some("p")},
          env \in {"missing", "incomplete", "both"}, resp \in Responses :
          IF CredentialsError(email, password, env) # "none"
          THEN /\ cmd' = [pc |-> "idle", op |-> "login",
                          error |-> CredentialsError(email, password, env)]
               /\ UNCHANGED <<client, trace>>
          ELSE LET out == LoginOutcome(client, resp)
               IN /\ trace' = [trace EXCEPT ![1] =
                                 Append(@, Sent(client, "POST", <<"users", "login">>, resp))]
                  /\ client' = out.client
                  /\ cmd' = [pc |-> "idle", op |-> "login", error |-> out.error]
    /\ UNCHANGED <<mode, writers, backend, nextId, pc, frame, ens, input, art, dir>>

(* Any other public call that sends one request through _request; a call  *)
(* of a method the class does not define raises AttributeError before     *)
(* anything is sent.                                                      *)
ClientCall ==
    /\ mode = "client"
    /\ calls < MaxRequests
    /\ calls' = calls + 1
    /\ \E op \in {"list_documents", "create_document", "update_document", "delete_document"},
          resp \in {r \in Responses : r.token = None} :
          IF op \notin ClientMethods
          THEN /\ cmd' = [pc |-> "idle", op |-> op, error |-> "AttributeError"]
               /\ UNCHANGED trace
          ELSE /\ trace' = [trace EXCEPT ![1] =
                              Append(@, Sent(client,
                                             CASE op = "list_documents" -> "GET"
                                               [] op = "create_document" -> "POST"
                                               [] op = "update_document" -> "PATCH",
                                             IF op = "update_document"
                                             THEN <<"posts", "123">> ELSE <<"posts">>,
                                             resp))]
               /\ cmd' = [pc |-> "idle", op |-> op, error |-> RequestError(resp)]
    /\ UNCHANGED <<mode, writers, backend, nextId, pc, frame, ens, input, art, dir, client>>

(* Callers of the client: it is constructed with or without a token and   *)
(* with the default or another token type.                                *)
InitClient ==
    /\ mode = "client"
    /\ writers = {1}
    /\ backend = [c \in Collections |-> <<>>]
    /\ nextId = 1
    /\ pc = [w \in AllWriters |-> "idle"]
    /\ frame = [w \in AllWriters |-> IdleFrame]
    /\ trace = [w \in AllWriters |-> <<>>]
    /\ calls = 0
    /\ ens = IdleEns
    /\ art = IdleArt
    /\ dir = IdleDir
    /\ \E token \in {None, Some(""), Some("T0")}, type \in {"Bearer", "JWT"} :
          /\ client = [token |-> token, tokenType |-> type]
          /\ input = [file |-> <<>>, cfg |-> client, runs |-> 0]
    /\ cmd = [pc |-> "idle", op |-> "none", error |-> "none"]

NextClient ==
    \/ Login
    \/ ClientCall

SpecClient == InitClient /\ [][NextClient]_vars

----------------------------------------------------------------------------
(* clean_payloadcms.py: delete_all_documents, clean_payloadcms and main.   *)
(* trace[1] is the log of the client calls the script makes.               *)

(* The limit delete_all_documents uses when the caller gives none *)
DefaultLimit == 100

(* client.list_documents(collection, params={"limit": limit}) on a backend *)
(* that answers with the first limit documents                             *)
FirstDocs(coll, limit) ==
    SubSeq(backend[coll], 1, IF Len(backend[coll]) < limit THEN Len(backend[coll]) ELSE limit)

(* client.delete_document(collection, doc_id): the class has no such       *)
(* method, so the attribute lookup raises before anything is sent.         *)
DeleteDocumentError ==
    IF "delete_document" \in ClientMethods THEN "none" ELSE "AttributeError"

(* Mutant: the deletion is counted before the call is made *)
CountedBeforeCall(total, error) == total + 1

(* total_deleted += 1 stands after the call, inside the try *)
Counted(total, error) == IF error = "none" THEN total + 1 ELSE total

(* Mutant: the first failed delete ends the batch *)
NextIndexStoppingOnError(i, n, error) == IF error = "none" THEN i + 1 ELSE n + 1

(* The for loop goes on to the next document after the except clause *)
NextIndex(i, n, error) == i + 1

(* Mutant: a failed list call is tried again *)
AfterListRetrying(failed, docs) ==
    IF failed THEN "list" ELSE IF docs = <<>> THEN "return" ELSE "batch"

(* Where the loop goes after the list call: the except clause and the      *)
(* empty batch both break, otherwise the batch is processed.               *)
AfterList(failed, docs) ==
    IF failed \/ docs = <<>> THEN "return" ELSE "batch"

(* The fetch of one batch: the list call fails (the loop is left), or it   *)
(* answers; an empty batch leaves the loop too. The log keeps the calls of *)
(* the first MaxPasses passes; cmd.over tells that a later pass is running. *)
SweepList ==
    /\ mode = "cleanup"
    /\ cmd.pc = "list"
    /\ \E failed \in BOOLEAN :
          LET docs == IF failed THEN <<>> ELSE FirstDocs(cmd.coll, cmd.limit)
          IN /\ trace' = IF cmd.lists < MaxPasses
                         THEN [trace EXCEPT ![1] =
                                 Append(@, [op |-> "list", coll |-> cmd.coll,
                                            limit |-> cmd.limit,
                                            error |-> IF failed THEN "HTTPError" ELSE "none"])]
                         ELSE trace
             /\ cmd' = [cmd EXCEPT !.lists = IF @ < MaxPasses THEN @ + 1 ELSE @,
                                   !.over = cmd.lists >= MaxPasses,
                                   !.docs = docs, !.i = 1,
                                   !.pc = AfterList(failed, docs)]
    /\ UNCHANGED <<mode, writers, backend, nextId, pc, frame, calls, ens, input, art, dir, client>>

(* One iteration of the for loop: a document without an id is skipped,     *)
(* another one is deleted inside try/except.                               *)
SweepDelete ==
    /\ cmd.pc = "batch"
    /\ cmd.i <= Len(cmd.docs)
    /\ LET doc == cmd.docs[cmd.i]
           n == Len(cmd.docs)
       IN IF doc.id = None
          THEN /\ cmd' = [cmd EXCEPT !.i = @ + 1]
               /\ UNCHANGED <<trace, backend>>
          ELSE /\ trace' = IF cmd.over THEN trace
                           ELSE [trace EXCEPT ![1] =
                                   Append(@, [op |-> "delete_document", coll |-> cmd.coll,
                                              id |-> The(doc.id),
                                              error |-> DeleteDocumentError])]
               /\ backend' = IF DeleteDocumentError = "none"
                             THEN [backend EXCEPT ![cmd.coll] =
                                      SelectSeq(@, LAMBDA d : d.id # doc.id)]
                             ELSE backend
               /\ cmd' = [cmd EXCEPT !.i = NextIndex(cmd.i, n, DeleteDocumentError),
                                     !.total = Counted(@, DeleteDocumentError)]
    /\ UNCHANGED <<mode, writers, nextId, pc, frame, calls, ens, input, art, dir, client>>

(* if len(docs) < limit: break; otherwise the next batch is fetched *)
SweepBatchEnd ==
    /\ cmd.pc = "batch"
    /\ cmd.i > Len(cmd.docs)
    /\ cmd' = [cmd EXCEPT !.pc = IF Len(cmd.docs) < cmd.limit THEN "return" ELSE "list"]
    /\ UNCHANGED <<mode, writers, backend, nextId, pc, frame, trace, calls, ens, input, art,
                   dir, client>>

(* return total_deleted: to the caller of delete_all_documents, or into    *)
(* results[...] of clean_payloadcms                                        *)
SweepReturn ==
    /\ cmd.pc = "return"
    /\ cmd' = IF cmd.entry = "sweep"
              THEN [cmd EXCEPT !.pc = "done"]
              ELSE [cmd EXCEPT !.pc = "next", !.queue = Tail(@),
                               !.results = Put(@, Head(cmd.queue), cmd.total)]
    /\ UNCHANGED <<mode, writers, backend, nextId, pc, frame, trace, calls, ens, input, art,
                   dir, client>>

(* Mutant: media is swept before posts *)
SweepOrderMediaFirst == <<"media", "posts", "categories">>

(* The order of the three if blocks of clean_payloadcms *)
SweepOrder == <<"posts", "media", "categories">>

(* clean_payloadcms is entered: results = {} *)
CleanCall ==
    /\ mode = "cleanup"
    /\ cmd.pc = "clean"
    /\ cmd' = [cmd EXCEPT !.pc = "next", !.results = <<>>,
                          !.queue = SelectSeq(SweepOrder, LAMBDA k : k \in cmd.selected)]
    /\ UNCHANGED <<mode, writers, backend, nextId, pc, frame, trace, calls, ens, input, art,
                   dir, client>>

(* The next selected collection is swept with the default limit *)
CleanNext ==
    /\ cmd.pc = "next"
    /\ cmd.queue # <<>>
    /\ cmd' = [cmd EXCEPT !.pc = "list", !.coll = Head(cmd.queue), !.limit = DefaultLimit,
                          !.total = 0, !.docs = <<>>, !.i = 1, !.lists = 0]
    /\ UNCHANGED <<mode, writers, backend, nextId, pc, frame, trace, calls, ens, input, art,
                   dir, client>>

(* return results; in main the summary is printed and main returns 0 *)
CleanReturn ==
    /\ cmd.pc = "next"
    /\ cmd.queue = <<>>
    /\ cmd' = IF cmd.entry = "main"
              THEN [cmd EXCEPT !.pc = "exited", !.exit = Some(0)]
              ELSE [cmd EXCEPT !.pc = "done"]
    /\ UNCHANGED <<mode, writers, backend, nextId, pc, frame, trace, calls, ens, input, art,
                   dir, client>>

(* The confirmation prompt of main: --yes, or an answer whose lower case   *)
(* is "yes" or "y"; anything else cancels with exit code 0.               *)
MainConfirm ==
    /\ mode = "cleanup"
    /\ cmd.pc = "confirm"
    /\ cmd' = IF cmd.yes \/ cmd.answer \in {"yes", "y", "YES", "Y"}
              THEN [cmd EXCEPT !.pc = "auth"]
              ELSE [cmd EXCEPT !.pc = "exited", !.exit = Some(0)]
    /\ UNCHANGED <<mode, writers, backend, nextId, pc, frame, trace, calls, ens, input, art,
                   dir, client>>

(* The parameters of login that have no default value *)
LoginRequired == {"user_collection"}

(* Mutant: main goes on to the cleanup whatever the login did *)
AfterLoginAlwaysClean(c, error) == [c EXCEPT !.pc = "clean"]

(* except Exception: ... return 1, else the cleanup follows *)
AfterLogin(c, error) ==
    IF error = "none" THEN [c EXCEPT !.pc = "clean"]
    ELSE [c EXCEPT !.pc = "exited", !.exit = Some(1)]

(* client = PayloadRESTClient(...); client.login(email=args.email,         *)
(* password=args.password): the call gives only the keywords email and     *)
(* password, so Python raises TypeError for the missing positional         *)
(* parameter before the body of login runs.                                *)
MainAuthenticate ==
    /\ cmd.pc = "auth"
    /\ IF ~(LoginRequired \subseteq {"email", "password"})
       THEN /\ cmd' = AfterLogin(cmd, "TypeError")
            /\ UNCHANGED <<client, trace>>
       ELSE LET resp == IF cmd.accepts
                        THEN [status |-> "200", json |-> "object", token |-> Some("T1")]
                        ELSE [status |-> "error", json |-> "object", token |-> None]
                out == LoginOutcome(client, resp)
            IN /\ trace' = [trace EXCEPT ![1] =
                              Append(@, [op |-> "login", coll |-> "users", error |-> out.error])]
               /\ client' = out.client
               /\ cmd' = AfterLogin(cmd, out.error)
    /\ UNCHANGED <<mode, writers, backend, nextId, pc, frame, calls, ens, input, art, dir>>

----------------------------------------------------------------------------
(* Callers of the cleanup script: delete_all_documents on one collection   *)
(* with a small limit, clean_payloadcms, and the command itself.           *)

(* A collection of n documents; has[i] tells whether the i-th has an id *)
DocsOf(n, has, first) ==
    [i \in 1..n |-> Doc(IF has[i] THEN Some(first + i) ELSE None, [title |-> <<"o">>], 0)]

InitCleanup ==
    /\ mode = "cleanup"
    /\ writers = {1}
    /\ nextId = 1
    /\ pc = [w \in AllWriters |-> "idle"]
    /\ frame = [w \in AllWriters |-> IdleFrame]
    /\ trace = [w \in AllWriters |-> <<>>]
    /\ calls = 0
    /\ ens = IdleEns
    /\ art = IdleArt
    /\ dir = IdleDir
    /\ client = IdleClient
    /\ \E n \in 0..MaxDocs, m \in 0..1 :
          \E has \in [1..n -> BOOLEAN], hasM \in [1..m -> BOOLEAN] :
              backend = [c \in Collections |->
                            IF c = "posts" THEN DocsOf(n, has, 0)
                            ELSE IF c = "media" THEN DocsOf(m, hasM, 10)
                            ELSE IF c = "categories" THEN DocsOf(1, <<TRUE>>, 20)
                            ELSE <<>>]
    /\ input = [file |-> <<>>, cfg |-> backend, runs |-> 0]
    /\ \E entry \in {"sweep", "clean", "main"}, limit \in 1..MaxDocs,
          selected \in SUBSET {"posts", "media", "categories"},
          yes \in BOOLEAN, answer \in {"Y", "no"}, accepts \in BOOLEAN :
          /\ entry = "sweep" => (selected = {} /\ yes /\ answer = "no" /\ accepts)
          /\ entry = "clean" => (limit = 1 /\ yes /\ answer = "no" /\ accepts)
          /\ entry = "main" => limit = 1
          /\ cmd = [pc |-> CASE entry = "sweep" -> "list" [] entry = "clean" -> "clean"
                             [] entry = "main" -> "confirm",
                    entry |-> entry, yes |-> yes, answer |-> answer, accepts |-> accepts,
                    exit |-> None, selected |-> selected, queue |-> <<>>, results |-> <<>>,
                    coll |-> "posts", limit |-> limit, total |-> 0, docs |-> <<>>,
                    i |-> 1, lists |-> 0, over |-> FALSE]

NextCleanup ==
    \/ SweepList
    \/ SweepDelete
    \/ SweepBatchEnd
    \/ SweepReturn
    \/ CleanCall
    \/ CleanNext
    \/ CleanReturn
    \/ MainConfirm
    \/ MainAuthenticate

SpecCleanup == InitCleanup /\ [][NextCleanup]_vars

(* The script is one thread that runs on whenever it has a step to take *)
SpecCleanupFair == SpecCleanup /\ WF_vars(NextCleanup)

----------------------------------------------------------------------------
(* file_parser.py: parse_article_file *)

(* What yaml.safe_load gives for a metadata text: the Python type of the   *)
(* value and whether Python takes it as true. A text that is not YAML      *)
(* raises YAMLError.                                                       *)
Value(type, truthy) == [type |-> type, truthy |-> truthy]

SafeLoad(text) ==
    CASE text = "title: T" -> Value("dict", TRUE)
      [] text = "{}" -> Value("dict", FALSE)
      [] text = "- a" -> Value("list", TRUE)
      [] text = "[]" -> Value("list", FALSE)
      [] text = "abc" -> Value("str", TRUE)
      [] text = "''" -> Value("str", FALSE)
      [] text = "7" -> Value("int", TRUE)
      [] text = "0" -> Value("int", FALSE)
      [] text = "true" -> Value("bool", TRUE)
      [] text = "false" -> Value("bool", FALSE)
      [] text = "~" -> Value("NoneType", FALSE)
      [] text = "" -> Value("NoneType", FALSE)
      [] text = "a: [" -> Value("YAMLError", FALSE)

(* yaml.safe_load(metadata_text) or {} *)
LoadedOrEmpty(v) == IF v.truthy THEN v ELSE Value("dict", FALSE)

(* parse_article_file on a text: whether the front-matter pattern matches  *)
(* after a leading BOM is dropped, then the metadata.                      *)
ParseArticleFile(file) ==
    IF ~(file.opens /\ file.closes)
    THEN [pc |-> "raised", error |-> "ValueError: no front matter", metadata |-> None]
    ELSE IF SafeLoad(file.meta).type = "YAMLError"
    THEN [pc |-> "raised", error |-> "ValueError: not parsed", metadata |-> None]
    ELSE IF LoadedOrEmpty(SafeLoad(file.meta)).type # "dict"
    THEN [pc |-> "raised", error |-> "ValueError: not a mapping", metadata |-> None]
    ELSE [pc |-> "returned", error |-> "none",
          metadata |-> Some(LoadedOrEmpty(SafeLoad(file.meta)))]

ParseCall ==
    /\ mode = "parse"
    /\ cmd.pc = "idle"
    /\ cmd' = ParseArticleFile(input.file)
    /\ UNCHANGED <<mode, writers, backend, nextId, pc, frame, trace, calls, ens, input, art,
                   dir, client>>

(* Callers: texts with or without a BOM, an opening and a closing --- line, *)
(* and the metadata texts above                                            *)
MetaTexts ==
    {"title: T", "{}", "- a", "[]", "abc", "''", "7", "0", "true", "false", "~", "", "a: ["}

InitParse ==
    /\ mode = "parse"
    /\ writers = {1}
    /\ backend = [c \in Collections |-> <<>>]
    /\ nextId = 1
    /\ pc = [w \in AllWriters |-> "idle"]
    /\ frame = [w \in AllWriters |-> IdleFrame]
    /\ trace = [w \in AllWriters |-> <<>>]
    /\ calls = 0
    /\ ens = IdleEns
    /\ art = IdleArt
    /\ dir = IdleDir
    /\ client = IdleClient
    /\ cmd = [pc |-> "idle", error |-> "none", metadata |-> None]
    /\ \E bom, opens, closes \in BOOLEAN, meta \in MetaTexts, body \in {"", "<p>x</p>"} :
          input = [file |-> [bom |-> bom, opens |-> opens, closes |-> closes,
                             meta |-> meta, body |-> body],
                   cfg |-> <<>>, runs |-> 0]

NextParse == ParseCall

SpecParse == InitParse /\ [][NextParse]_vars

----------------------------------------------------------------------------
(* html_to_lexical.py: HTMLToLexicalConverter. The tree under construction *)
(* is the sequence of its nodes in creation order, each with the index of  *)
(* its parent (0 for the root): a node is appended to its parent's         *)
(* children when it is created, so the children of a node are in index     *)
(* order. Texts are sequences of characters.                               *)

BlockTags == {"p", "h1", "h2", "h3", "h4", "h5", "h6", "blockquote", "li"}
ListTags == {"ul", "ol"}
ContainerTags == {"div", "section", "article", "main", "aside", "nav", "header", "footer"}
IgnoreTags == {"script", "style", "iframe"}

(* block_tags[tag] and the type of a list node *)
NodeType(tag) ==
    CASE tag = "p" -> "paragraph"
      [] tag \in {"h1", "h2", "h3", "h4", "h5", "h6"} -> "heading"
      [] tag = "blockquote" -> "quote"
      [] tag = "li" -> "listitem"
      [] tag \in ListTags -> "list"

(* The format a start or end tag adds or removes *)
FormatOf(tag) ==
    CASE tag \in {"strong", "b"} -> "bold"
      [] tag \in {"em", "i"} -> "italic"
      [] tag = "code" -> "code"
      [] OTHER -> "none"

(* __init__ *)
NewConverter ==
    [nodes |-> <<>>, stack |-> <<>>, buffer |-> <<>>, ignoring |-> 0,
     formats |-> <<>>, link |-> None]

InList(x, list) == \E i \in 1..Len(list) : list[i] = x

(* format_value: the bits are distinct, so | is + *)
FormatValue(formats) ==
    (IF InList("bold", formats) THEN 1 ELSE 0)
      + (IF InList("italic", formats) THEN 2 ELSE 0)
      + (IF InList("code", formats) THEN 16 ELSE 0)

(* _create_block_node and _create_list_node, appended to the children of   *)
(* the top of the stack, or to root_children                               *)
NewNode(c, tag) ==
    [type |-> NodeType(tag), tag |-> tag,
     parent |-> IF c.stack # <<>> THEN c.stack[Len(c.stack)] ELSE 0,
     text |-> <<>>, format |-> 0, url |-> None]

(* _create_text_node: a link node when current_link is set and not empty *)
TextNode(c, text, parent) ==
    [type |-> IF c.link # None /\ The(c.link) # "" THEN "link" ELSE "text", tag |-> "",
     parent |-> parent, text |-> text, format |-> FormatValue(c.formats),
     url |-> IF c.link # None /\ The(c.link) # "" THEN c.link ELSE None]

(* _flush_text *)
FlushText(c) ==
    IF c.buffer = <<>> THEN c
    ELSE IF Strip(c.buffer) = <<>> THEN [c EXCEPT !.buffer = <<>>]
    ELSE IF c.stack # <<>>
    THEN [c EXCEPT !.nodes = Append(@, TextNode(c, Strip(c.buffer), c.stack[Len(c.stack)])),
                   !.buffer = <<>>]
    ELSE [c EXCEPT !.nodes = @ \o << [NewNode(c, "p") EXCEPT !.parent = 0],
                                     TextNode(c, Strip(c.buffer), Len(c.nodes) + 1) >>,
                   !.buffer = <<>>]

(* list.remove(x): the first occurrence goes *)
RECURSIVE RemoveFirst(_, _)
RemoveFirst(list, x) ==
    IF list = <<>> THEN <<>>
    ELSE IF Head(list) = x THEN Tail(list)
    ELSE <<Head(list)>> \o RemoveFirst(Tail(list), x)

(* handle_starttag(tag, attrs); href is the first href attribute, if any *)
StartTag(c, tag, href) ==
    IF c.ignoring > 0 THEN [c EXCEPT !.ignoring = @ + 1]
    ELSE IF tag \in IgnoreTags THEN [c EXCEPT !.ignoring = 1]
    ELSE LET f == FlushText(c) IN
         IF tag \in ContainerTags THEN f
         ELSE IF tag \in BlockTags \cup ListTags
         THEN [f EXCEPT !.nodes = Append(@, NewNode(f, tag)),
                        !.stack = Append(@, Len(f.nodes) + 1)]
         ELSE IF FormatOf(tag) # "none"
         THEN [f EXCEPT !.formats = Append(@, FormatOf(tag))]
         ELSE IF tag = "a" /\ href # None THEN [f EXCEPT !.link = href]
         ELSE f

(* handle_endtag(tag) *)
EndTag(c, tag) ==
    IF c.ignoring > 0 THEN [c EXCEPT !.ignoring = @ - 1]
    ELSE LET f == FlushText(c) IN
         IF tag \in ContainerTags THEN f
         ELSE IF tag \in BlockTags \cup ListTags
         THEN (IF f.stack # <<>> THEN [f EXCEPT !.stack = SubSeq(@, 1, Len(@) - 1)] ELSE f)
         ELSE IF FormatOf(tag) # "none"
         THEN [f EXCEPT !.formats = RemoveFirst(@, FormatOf(tag))]
         ELSE IF tag = "a" THEN [f EXCEPT !.link = None]
         ELSE f

(* handle_data(data) *)
HandleData(c, data) ==
    IF c.ignoring > 0 THEN c
    ELSE IF Strip(data) # <<>> THEN [c EXCEPT !.buffer = @ \o data]
    ELSE c

HasChildrenKey(node) == node.type \notin {"text", "link"}

(* Mutant: a node is kept when it has any child, pruned or not *)
KeptWithAnyChild(nodes, i) ==
    \/ ~HasChildrenKey(nodes[i])
    \/ \E j \in (i + 1)..Len(nodes) : nodes[j].parent = i

(* _clean_empty_nodes: the children are cleaned first; a node with a       *)
(* children list is kept when the cleaned list is not empty, a node        *)
(* without one is kept.                                                    *)
RECURSIVE Kept(_, _)
Kept(nodes, i) ==
    \/ ~HasChildrenKey(nodes[i])
    \/ \E j \in (i + 1)..Len(nodes) : nodes[j].parent = i /\ Kept(nodes, j)

(* The indices of the nodes of the returned tree *)
Cleaned_Nodes(nodes) == {i \in 1..Len(nodes) : Kept(nodes, i)}

----------------------------------------------------------------------------
(* What html.parser feeds the converter. Beside the converter, cmd holds   *)
(* the document as fed so far: open are the elements open in the document, *)
(* outside is the text fed outside ignored elements, openAt[i] are the     *)
(* formats open where the text of node i was fed, lastPop is the last pop  *)
(* of the construction stack.                                              *)

VoidTags == {"br", "img"}

(* The end tags HTML allows to leave out *)
OptionalEnd == {"li", "p"}

Range(list) == {list[i] : i \in 1..Len(list)}

InIgnored(open) == Range(open) \cap IgnoreTags # {}

OpenFormats(open) == {FormatOf(t) : t \in Range(open)} \ {"none"}

(* The index of the innermost open element an end tag closes: the tag is   *)
(* open and only elements with an optional end tag are open inside it; 0   *)
(* when the end tag cannot follow.                                         *)
Closes(open, tag) ==
    LET at == {k \in 1..Len(open) :
                  /\ open[k] = tag
                  /\ \A j \in (k + 1)..Len(open) : open[j] \in OptionalEnd /\ open[j] # tag}
    IN IF at = {} THEN 0 ELSE CHOOSE k \in at : TRUE

(* The text nodes a handler created get the formats open at their text *)
WithOpenAt(openAt, before, after, kinds) ==
    [i \in 1..Len(after.nodes) |->
        IF i <= Len(before.nodes) THEN openAt[i]
        ELSE IF HasChildrenKey(after.nodes[i]) THEN {} ELSE kinds]

(* A start tag; inside script and style html.parser reads no tags *)
FeedStart ==
    /\ mode = "lexical"
    /\ cmd.pc = "feeding"
    /\ cmd.fed < MaxEvents
    /\ \E tag \in input.cfg.tags, href \in {None, Some("u")} :
          /\ IF cmd.open = <<>> THEN TRUE
             ELSE cmd.open[Len(cmd.open)] \notin {"script", "style"}
          /\ href # None => tag = "a"
          /\ LET c == StartTag(cmd.conv, tag, href) IN
             cmd' = [cmd EXCEPT !.conv = c, !.fed = @ + 1, !.last = "start",
                        !.open = IF tag \in VoidTags THEN @ ELSE Append(@, tag),
                        !.openAt = WithOpenAt(@, cmd.conv, c, cmd.kinds)]
    /\ UNCHANGED <<mode, writers, backend, nextId, pc, frame, trace, calls, ens, input, art,
                   dir, client>>

(* An end tag of an open element *)
FeedEnd ==
    /\ mode = "lexical"
    /\ cmd.pc = "feeding"
    /\ cmd.fed < MaxEvents
    /\ \E tag \in input.cfg.tags :
          /\ Closes(cmd.open, tag) > 0
          /\ LET c == EndTag(cmd.conv, tag)
                 popped == Len(c.stack) < Len(cmd.conv.stack)
             IN cmd' = [cmd EXCEPT !.conv = c, !.fed = @ + 1, !.last = "end",
                           !.open = SubSeq(@, 1, Closes(cmd.open, tag) - 1),
                           !.openAt = WithOpenAt(@, cmd.conv, c, cmd.kinds),
                           !.lastPop = IF popped
                                       THEN <<tag, c.nodes[cmd.conv.stack[Len(cmd.conv.stack)]].tag>>
                                       ELSE @]
    /\ UNCHANGED <<mode, writers, backend, nextId, pc, frame, trace, calls, ens, input, art,
                   dir, client>>

(* Text between two tags: "x" outside ignored elements, "s" inside, or     *)
(* white space                                                             *)
FeedData ==
    /\ mode = "lexical"
    /\ cmd.pc = "feeding"
    /\ cmd.fed < MaxEvents
    /\ cmd.last # "data"
    /\ \E data \in {<<IF InIgnored(cmd.open) THEN "s" ELSE "x">>, <<" ">>} :
          LET c == HandleData(cmd.conv, data) IN
          cmd' = [cmd EXCEPT !.conv = c, !.fed = @ + 1, !.last = "data",
                     !.outside = IF InIgnored(cmd.open) THEN @ ELSE @ \o Strip(data),
                     !.kinds = IF c.buffer # cmd.conv.buffer
                               THEN OpenFormats(cmd.open) ELSE @]
    /\ UNCHANGED <<mode, writers, backend, nextId, pc, frame, trace, calls, ens, input, art,
                   dir, client>>

(* get_lexical_structure: the pending text is flushed, the tree is cleaned *)
GetLexicalStructure ==
    /\ mode = "lexical"
    /\ cmd.pc = "feeding"
    /\ LET c == FlushText(cmd.conv) IN
       cmd' = [cmd EXCEPT !.pc = "done", !.conv = c,
                  !.openAt = WithOpenAt(@, cmd.conv, c, cmd.kinds),
                  !.output = Cleaned_Nodes(c.nodes)]
    /\ UNCHANGED <<mode, writers, backend, nextId, pc, frame, trace, calls, ens, input, art,
                   dir, client>>

(* html_to_lexical(html): a new converter, before feed *)
LexicalStart(tags) ==
    /\ mode = "lexical"
    /\ writers = {1}
    /\ backend = [c \in Collections |-> <<>>]
    /\ nextId = 1
    /\ pc = [w \in AllWriters |-> "idle"]
    /\ frame = [w \in AllWriters |-> IdleFrame]
    /\ trace = [w \in AllWriters |-> <<>>]
    /\ calls = 0
    /\ ens = IdleEns
    /\ art = IdleArt
    /\ dir = IdleDir
    /\ client = IdleClient
    /\ input = [file |-> <<>>, cfg |-> [tags |-> tags], runs |-> 0]
    /\ cmd = [pc |-> "feeding", conv |-> NewConverter, fed |-> 0, last |-> "none",
              open |-> <<>>, outside |-> <<>>, kinds |-> {}, openAt |-> <<>>,
              lastPop |-> <<>>, output |-> {}]

NextLexical ==
    \/ FeedStart
    \/ FeedEnd
    \/ FeedData
    \/ GetLexicalStructure

(* Documents of blocks, lists, containers and ignored elements *)
InitLexical == LexicalStart({"p", "ul", "li", "div", "iframe", "script", "br"})
SpecLexical == InitLexical /\ [][NextLexical]_vars

(* Documents of formatted text, links and ignored elements *)
InitFormats == LexicalStart({"strong", "b", "i", "code", "a", "iframe", "br"})
SpecFormats == InitFormats /\ [][NextLexical]_vars

----------------------------------------------------------------------------
(* Properties of upsert_by_field *)

IsWrite(r) == r.op \in {"create", "update", "upload"}
Writes(t) == SelectIdx(t, IsWrite)
KeyOf(d) == d.fields.key
AtMostOnePerKey ==
    \A i, j \in 1..Len(backend["docs"]) :
        KeyOf(backend["docs"][i]) = KeyOf(backend["docs"][j]) => i = j
Consistent(w) == frame[w].payload.key = frame[w].value
CreateStep(w) ==
    /\ pc[w] = "branch"
    /\ pc'[w] = "done"
    /\ Len(backend'[frame[w].coll]) > Len(backend[frame[w].coll])

(* C1: a call that returns has issued exactly one lookup by field equality *)
(* and then exactly one write: the update of the found document's id when  *)
(* the lookup found one, the create otherwise; and no trace holds an       *)
(* update that does not directly follow a lookup that found a document.    *)
UpsertOneLookupOneWrite ==
    \A w \in writers :
        /\ pc[w] = "done" =>
              /\ Len(trace[w]) = 2
              /\ trace[w][1] = ReqList(frame[w].coll, frame[w].field, frame[w].value,
                                       IsSome(frame[w].existing))
              /\ trace[w][2] =
                    IF IsSome(frame[w].existing)
                    THEN ReqUpdate(frame[w].coll, The(The(frame[w].existing).id), frame[w].payload)
                    ELSE ReqCreate(frame[w].coll, frame[w].payload)
        /\ \A i \in 1..Len(trace[w]) :
              trace[w][i].op = "update" =>
                  /\ i = 2
                  /\ trace[w][1].op = "list"
                  /\ trace[w][1].found
                  /\ IsSome(frame[w].existing)
                  /\ Some(trace[w][i].id) = The(frame[w].existing).id

UpsertUpdatedFound ==
    \E w \in writers :
        pc[w] = "done" /\ Len(trace[w]) = 2 /\ trace[w][2].op = "update"

(* C2: when the lookup returned a document without an id, the call raises  *)
(* ValueError, issues no update and no create, and leaves the backend as   *)
(* it was.                                                                 *)
MissingIdLeavesBackend ==
    [][\A w \in writers :
          (/\ pc[w] = "branch"
           /\ IsSome(frame[w].existing)
           /\ The(frame[w].existing).id = None
           /\ pc'[w] # pc[w])
          => /\ pc'[w] = "failed"
             /\ frame'[w].error = "ValueError"
             /\ backend' = backend
             /\ trace'[w] = trace[w]
             /\ Writes(trace'[w]) = {}]_vars

MissingIdRaised ==
    \E w \in writers :
        /\ pc[w] = "failed"
        /\ frame[w].error = "ValueError"
        /\ The(frame[w].existing).id = None

(* C3 as stated: with a single writer the collection holds at most one     *)
(* document per key value after any sequence of upsert_by_field calls.     *)
SingleWriterUniqueKeys ==
    Cardinality(writers) = 1 => AtMostOnePerKey

(* C3 as amended: with a single writer, a call whose payload carries the   *)
(* lookup value under the key field keeps the collection at one document   *)
(* per key value, and its create is issued only while no document holds    *)
(* the lookup value.                                                       *)
ConsistentUpsertKeepsUniqueKeys ==
    [][\A w \in writers :
          (/\ Cardinality(writers) = 1
           /\ pc[w] = "branch"
           /\ Consistent(w))
          => /\ (AtMostOnePerKey => AtMostOnePerKey')
             /\ (CreateStep(w) =>
                    Matches(frame[w].coll, frame[w].field, frame[w].value) = {})]_vars

SingleWriterCreated ==
    /\ Cardinality(writers) = 1
    /\ calls = MaxCalls
    /\ pc[1] = "done"
    /\ Consistent(1)
    /\ trace[1][2].op = "create"
    /\ Len(backend["docs"]) >= 2

(* C4: with concurrent writers a create whose lookup value is by then held *)
(* by a stored document happens only because another writer's write        *)
(* landed between the lookup and the create; the interleaving lookup,      *)
(* lookup, create, create is reachable and leaves two documents sharing    *)
(* one key value.                                                          *)
DuplicateOnlyByInterleavedWrite ==
    [][\A w \in writers :
          (CreateStep(w) /\ Consistent(w))
          => \A i \in Matches(frame[w].coll, frame[w].field, frame[w].value) :
                backend[frame[w].coll][i].by \in writers \ {w}]_vars

RaceDuplicatedKey ==
    \E w1, w2 \in writers :
        /\ w1 # w2
        /\ pc[w1] = "done" /\ pc[w2] = "done"
        /\ Consistent(w1) /\ Consistent(w2)
        /\ frame[w1].value = frame[w2].value
        /\ trace[w1] = <<ReqList("docs", "key", frame[w1].value, FALSE),
                         ReqCreate("docs", frame[w1].payload)>>
        /\ trace[w2] = trace[w1]
        /\ ~AtMostOnePerKey
        /\ calls = 2

----------------------------------------------------------------------------
(* Properties of ensure_categories *)

SlugOfLabel(l) == slugify(Strip(l))
DistinctSlugs(names) == {SlugOfLabel(names[i]) : i \in 1..Len(names)}
FirstIndex(names, slug) ==
    CHOOSE i \in 1..Len(names) :
        /\ SlugOfLabel(names[i]) = slug
        /\ \A j \in 1..(i - 1) : SlugOfLabel(names[j]) # slug

RECURSIVE SelectReqs(_, _)
SelectReqs(t, ops) ==
    IF t = <<>> THEN <<>>
    ELSE IF Head(t).op \in ops THEN <<Head(t)>> \o SelectReqs(Tail(t), ops)
    ELSE SelectReqs(Tail(t), ops)

WriteReqs(t) == SelectReqs(t, {"create", "update"})
ListReqs(t) == SelectReqs(t, {"list"})

(* C9: a call of ensure_categories that returns has issued exactly one     *)
(* write (create or update) per distinct slug of its labels, in order of   *)
(* first appearance, each carrying the first-seen label of its slug, and   *)
(* returns exactly one document per distinct slug in that order.           *)
OneWritePerDistinctSlug ==
    (mode = "categories" /\ ens.pc = "done") =>
        LET w == WriteReqs(trace[1])
            names == ens.input
        IN /\ Len(w) = Cardinality(DistinctSlugs(names))
           /\ Len(ens.results) = Len(w)
           /\ \A k \in 1..Len(w) :
                 /\ w[k].payload.slug \in DistinctSlugs(names)
                 /\ w[k].payload.title = Strip(names[FirstIndex(names, w[k].payload.slug)])
                 /\ ens.results[k].fields.slug = w[k].payload.slug
                 /\ ens.results[k].fields.title = w[k].payload.title
           /\ \A j, k \in 1..Len(w) :
                 j < k => FirstIndex(names, w[j].payload.slug)
                            < FirstIndex(names, w[k].payload.slug)

DedupedThreeLabels ==
    /\ mode = "categories"
    /\ ens.pc = "done"
    /\ Len(ens.input) = 3
    /\ Len(ens.results) = 2
    /\ SlugOfLabel(ens.input[1]) = SlugOfLabel(ens.input[3])
    /\ ens.input[1] # ens.input[3]

(* C10 as stated: a call of ensure_categories that returns has issued      *)
(* exactly one lookup, before every write.                                 *)
OneLookupBeforeAllWrites ==
    (mode = "categories" /\ ens.pc = "done" /\ ens.input # <<>>) =>
        /\ Len(ListReqs(trace[1])) = 1
        /\ trace[1][1].op = "list"
        /\ \A i \in 2..Len(trace[1]) : trace[1][i].op # "list"

----------------------------------------------------------------------------
(* Properties of upload_article_from_file *)

(* The ids the backend has assigned in a collection *)
IdsOf(coll) ==
    {The(backend[coll][i].id) : i \in {j \in 1..Len(backend[coll]) : backend[coll][j].id # None}}

(* The names a category or featured-image value can be written under *)
RefFields == {"tags", "categories", "featuredImage", "heroImage"}

(* Every id a payload carries is the id of a stored document *)
RefsExist(payload) ==
    \A k \in RefFields \cap DOMAIN payload :
        /\ payload[k].t = "ids" =>
              \A i \in 1..Len(payload[k].v) : payload[k].v[i] \in IdsOf("categories")
        /\ payload[k].t = "id" => payload[k].v \in IdsOf("media")

IsArticleReq(r) == r.coll = "posts"
IsMediaReq(r) == r.coll = "media"

(* C5: in one run of upload_article_from_file every category and media     *)
(* request precedes every article request; the article upsert is entered   *)
(* only with no resolution error and no resolution call pending, and is    *)
(* the last remote call; a run that fails during resolution has issued no  *)
(* article request; and at the article upsert every id in the payload is   *)
(* the id of a stored document.                                            *)
ResolutionBeforeArticleUpsert ==
    /\ [](mode = "article" =>
            /\ \A i, j \in 1..Len(trace[1]) :
                  (i < j /\ IsArticleReq(trace[1][i])) => IsArticleReq(trace[1][j])
            /\ (\E i \in 1..Len(trace[1]) : IsArticleReq(trace[1][i]))
                  => art.pc \in {"article_wait", "done", "failed"}
            /\ (pc[1] # "idle" /\ frame[1].coll = "posts") => art.pc = "article_wait"
            /\ art.pc = "article_wait" =>
                  /\ art.error = "none"
                  /\ ens.pc = "idle"
                  /\ frame[1].coll = "posts"
                  /\ RefsExist(frame[1].payload)
            /\ art.pc \in {"done", "failed"} => (pc[1] = "idle" /\ ens.pc = "idle")
            /\ art.pc = "done" =>
                  /\ trace[1] # <<>>
                  /\ IsArticleReq(trace[1][Len(trace[1])])
                  /\ trace[1][Len(trace[1])].op \in {"create", "update"}
                  /\ RefsExist(trace[1][Len(trace[1])].payload))
    /\ [][(mode = "article" /\ art.pc # "article_wait" /\ art'.pc = "failed")
            => /\ \A i \in 1..Len(trace'[1]) : ~IsArticleReq(trace'[1][i])
               /\ pc'[1] = "idle"]_vars

ArticleWrittenAfterResolution ==
    /\ mode = "article"
    /\ art.pc = "done"
    /\ \E i \in 1..Len(trace[1]) : trace[1][i].coll = "categories" /\ trace[1][i].op = "create"
    /\ \E i \in 1..Len(trace[1]) :
          IsMediaReq(trace[1][i]) /\ trace[1][i].op = "list" /\ trace[1][i].found
    /\ trace[1][Len(trace[1])].op = "create"
    /\ trace[1][Len(trace[1])].payload.tags.t = "ids"
    /\ trace[1][Len(trace[1])].payload.tags.v # <<>>
    /\ trace[1][Len(trace[1])].payload.featuredImage.t = "id"

(* C6 as stated: a second run on the unchanged file, after a first run     *)
(* that returned, issues no create and no upload and leaves one article    *)
(* for the slug, one media document per filename and one category          *)
(* document per category slug.                                             *)
OnePerKey(coll, f) ==
    \A i, j \in 1..Len(backend[coll]) :
        (/\ f \in DOMAIN backend[coll][i].fields
         /\ f \in DOMAIN backend[coll][j].fields
         /\ backend[coll][i].fields[f] = backend[coll][j].fields[f]) => i = j

SecondRunOnlyUpdates ==
    (mode = "article" /\ art.run = 2 /\ art.prev = "done" /\ art.pc = "done") =>
        /\ \A i \in 1..Len(trace[1]) : trace[1][i].op \notin {"create", "upload"}
        /\ Cardinality(Matches("posts", "slug", The(art.result).fields.slug)) = 1
        /\ OnePerKey("posts", "slug")
        /\ OnePerKey("media", "filename")
        /\ OnePerKey("categories", "slug")

(* C7 as stated: a featured image whose filename is stored is not uploaded *)
(* and the stored id is used; one whose filename is not stored is          *)
(* uploaded once without alt or caption, and the new document then gets    *)
(* exactly one update carrying both (unless a request failed).             *)
MediaLog == SelectSeq(trace[1], IsMediaReq)

ReuseOrUploadThenUpdate ==
    (mode = "article" /\ MediaLog # <<>>) =>
        LET m == MediaLog IN
        /\ m[1].op = "list"
        /\ m[1].found =>
              /\ Len(m) = 1
              /\ art.pc = "media_done" =>
                    \E i \in Matches("media", "filename", m[1].value) :
                        backend["media"][i].id = Some(art.media.id.v)
        /\ (/\ ~m[1].found
            /\ art.pc \notin {"media_lookup", "media_update"}
            /\ art.error # "HTTPError") =>
              /\ Len(m) = 3
              /\ m[2].op = "upload"
              /\ DOMAIN m[2].data \cap AltCaptionKeys = {}
              /\ m[3].op = "update"
              /\ \E i \in Matches("media", "filename", m[1].value) :
                    backend["media"][i].id = Some(m[3].id)
              /\ AltCaptionKeys \subseteq DOMAIN m[3].payload

(* The names the resolved values are written under *)
CategoryName(cfg) == IF cfg.catOut # None THEN The(cfg.catOut) ELSE The(cfg.catField)
ImageName(cfg) == IF cfg.imageOut # None THEN The(cfg.imageOut) ELSE The(cfg.imageField)

IsIds(value) == value.t \in {"id", "ids"}

(* C8 as stated: in the payload passed to the article upsert the category  *)
(* field and the featured-image field, under their source or output name,  *)
(* hold only backend-assigned ids whenever they are present.               *)
ReferenceFieldsHoldOnlyIds ==
    (mode = "article" /\ art.pc = "article_wait") =>
        LET cfg == input.cfg
            p == frame[1].payload
            names == (IF cfg.catField # None THEN {The(cfg.catField), CategoryName(cfg)} ELSE {})
                        \cup {The(cfg.imageField), ImageName(cfg)}
        IN \A k \in names \cap DOMAIN p : IsIds(p[k]) /\ RefsExist(p)

(* C8 as amended: when the category field is configured and holds a list   *)
(* with at least one string, the payload passed to the article upsert      *)
(* holds, under the output name, only ids of stored category documents     *)
(* and no longer the labels; when the featured-image field holds a         *)
(* non-blank string, it holds under the output name the id of a stored     *)
(* media document and no longer the path.                                  *)
ResolvableReferencesHoldOnlyIds ==
    (mode = "article" /\ art.pc = "article_wait") =>
        LET cfg == input.cfg
            meta == input.file.meta
            p == frame[1].payload
        IN /\ ResolvesCategories(cfg, meta) =>
                 /\ Has(p, CategoryName(cfg))
                 /\ p[CategoryName(cfg)].t = "ids"
                 /\ \A i \in 1..Len(p[CategoryName(cfg)].v) :
                        p[CategoryName(cfg)].v[i] \in IdsOf("categories")
                 /\ Has(p, The(cfg.catField)) => The(cfg.catField) = CategoryName(cfg)
           /\ (/\ Has(meta, The(cfg.imageField))
               /\ meta[The(cfg.imageField)].t = "str"
               /\ meta[The(cfg.imageField)].v # BlankPath) =>
                 /\ Has(p, ImageName(cfg))
                 /\ p[ImageName(cfg)].t = "id"
                 /\ p[ImageName(cfg)].v \in IdsOf("media")
                 /\ Has(p, The(cfg.imageField)) => The(cfg.imageField) = ImageName(cfg)

BothReferencesResolved ==
    /\ mode = "article"
    /\ art.pc = "article_wait"
    /\ ResolvesCategories(input.cfg, input.file.meta)
    /\ Has(input.file.meta, "featuredImage")
    /\ input.file.meta.featuredImage.t = "str"
    /\ input.cfg.imageOut = Some("heroImage")
    /\ Has(frame[1].payload, "heroImage")
    /\ frame[1].payload.tags.v # <<>>
    /\ frame[1].payload.heroImage.t = "id"

----------------------------------------------------------------------------
(* Properties of the category hierarchy *)

IsCategoryReq(r) == r.coll = "categories"
CategoryLog == SelectSeq(trace[1], IsCategoryReq)

(* The slug a category request is about *)
ReqSlug(r) == IF r.op = "list" THEN r.value ELSE r.payload.slug

(* The string labels of the front matter's category value *)
InputLabels == StrItems(input.file.meta[The(input.cfg.catField)].v)

(* The id of the stored category with a slug (one document per slug) *)
CatId(slug) ==
    The(backend["categories"][CHOOSE i \in Matches("categories", "slug", slug) : TRUE].id)

(* The slugs of a label list, without repetitions, in order of first       *)
(* appearance                                                              *)
RECURSIVE OrderedSlugs(_, _)
OrderedSlugs(names, seen) ==
    IF names = <<>> THEN <<>>
    ELSE IF SlugOfLabel(Head(names)) \in seen THEN OrderedSlugs(Tail(names), seen)
    ELSE <<SlugOfLabel(Head(names))>>
            \o OrderedSlugs(Tail(names), seen \cup {SlugOfLabel(Head(names))})

(* C11 as stated: with a parent field and a skip count N, every category   *)
(* request is about the slug of a label at index N or later, and every id  *)
(* in the article's category list is the id of such a label's category,    *)
(* whatever the length of the label list.                                  *)
SkippedLabelsNeverResolved ==
    (/\ mode = "article"
     /\ input.cfg.parentField # None
     /\ ResolvesCategories(input.cfg, input.file.meta)) =>
        LET names == InputLabels
            kept == {SlugOfLabel(names[i]) : i \in (input.cfg.skipFirst + 1)..Len(names)}
        IN /\ \A i \in 1..Len(CategoryLog) : ReqSlug(CategoryLog[i]) \in kept
           /\ art.pc = "article_wait" =>
                 \A i \in 1..Len(frame[1].payload[CategoryName(input.cfg)].v) :
                    \E slug \in kept :
                        /\ Matches("categories", "slug", slug) # {}
                        /\ frame[1].payload[CategoryName(input.cfg)].v[i] = CatId(slug)

----------------------------------------------------------------------------
(* Properties of the media alt and caption *)

(* The companion fields of the front matter that feed a media key *)
CompanionsFor(key) ==
    {CompanionKey("featuredImage", CompanionSuffixes[i]) :
        i \in {j \in 1..Len(CompanionSuffixes) : MediaField(CompanionSuffixes[j]) = key}}

(* The value the priority companion > default > filename gives a key *)
ByPriority(key) ==
    LET meta == input.file.meta
        given == {k \in CompanionsFor(key) \cap DOMAIN meta : meta[k] # <<>>}
        defaults == input.cfg.mediaDefaults
    IN IF given # {} THEN meta[CHOOSE k \in given : TRUE]
       ELSE IF Has(defaults, key) /\ defaults[key] # <<>> THEN defaults[key]
       ELSE Readable(StemOf(meta.featuredImage.v))

ExpectedAltCaption ==
    [alt |-> ByPriority("alt"), caption |-> TextToLexical(ByPriority("caption"))]

IsUploadReq(r) == r.op = "upload"

(* C13 as stated: after an upload the alt and caption prepared for the new *)
(* media document follow the priority companion field, media default,      *)
(* filename fallback, and they are sent to it (unless a request failed).   *)
AltCaptionByPriority ==
    (mode = "article" /\ SelectSeq(trace[1], IsUploadReq) # <<>>) =>
        /\ art.pc = "media_update" => art.media.altCaption = ExpectedAltCaption
        /\ (art.pc # "media_update" /\ art.error # "HTTPError") =>
              \E i \in 1..Len(trace[1]) :
                 /\ trace[1][i].op = "update"
                 /\ IsMediaReq(trace[1][i])
                 /\ trace[1][i].payload = ExpectedAltCaption

(* C14 as stated: the payload passed to the article upsert holds none of   *)
(* the companion keys of the featured-image field, whether or not the      *)
(* featured-image field itself is present.                                 *)
CompanionKeysNeverWritten ==
    (mode = "article" /\ art.pc = "article_wait") =>
        \A i \in 1..Len(CompanionSuffixes) :
            ~Has(frame[1].payload, CompanionKey(The(input.cfg.imageField), CompanionSuffixes[i]))

----------------------------------------------------------------------------
(* Properties of the output field names *)

CategoryRenamed(cfg) == cfg.catField # None /\ cfg.catOut # None /\ cfg.catOut # cfg.catField
ImageRenamed(cfg) == cfg.imageOut # None /\ cfg.imageOut # cfg.imageField

(* A featured-image value that media resolution resolves *)
ResolvesImage(cfg, meta) ==
    /\ Has(meta, The(cfg.imageField))
    /\ meta[The(cfg.imageField)].t = "str"
    /\ meta[The(cfg.imageField)].v # BlankPath

(* C15 as stated: with an output name different from the source name, the  *)
(* payload passed to the article upsert holds ids under the output name    *)
(* and no source key, whenever the front matter held the source key.       *)
OutputNameReplacesSource ==
    (mode = "article" /\ art.pc = "article_wait") =>
        LET cfg == input.cfg
            meta == input.file.meta
            p == frame[1].payload
        IN /\ (CategoryRenamed(cfg) /\ Has(meta, The(cfg.catField))) =>
                 /\ Has(p, The(cfg.catOut))
                 /\ IsIds(p[The(cfg.catOut)])
                 /\ ~Has(p, The(cfg.catField))
           /\ (ImageRenamed(cfg) /\ Has(meta, The(cfg.imageField))) =>
                 /\ Has(p, The(cfg.imageOut))
                 /\ IsIds(p[The(cfg.imageOut)])
                 /\ ~Has(p, The(cfg.imageField))

(* C15 as amended: with an output name different from the source name, a   *)
(* category value that is resolved (a list with a string) is written as    *)
(* ids of stored categories under the output name and the source key is    *)
(* removed, while any other category value stays under the source key and  *)
(* no output key is written; a featured-image value is always moved to the *)
(* output name, as the id of a stored media document when it is a          *)
(* non-blank string and unchanged otherwise.                               *)
OutputNameReplacesResolvedSource ==
    (mode = "article" /\ art.pc = "article_wait") =>
        LET cfg == input.cfg
            meta == input.file.meta
            p == frame[1].payload
        IN /\ (CategoryRenamed(cfg) /\ Has(meta, The(cfg.catField))) =>
                 IF ResolvesCategories(cfg, meta)
                 THEN /\ Has(p, The(cfg.catOut))
                      /\ p[The(cfg.catOut)].t = "ids"
                      /\ \A i \in 1..Len(p[The(cfg.catOut)].v) :
                            p[The(cfg.catOut)].v[i] \in IdsOf("categories")
                      /\ ~Has(p, The(cfg.catField))
                 ELSE /\ ~Has(p, The(cfg.catOut))
                      /\ Has(p, The(cfg.catField))
                      /\ p[The(cfg.catField)] = meta[The(cfg.catField)]
           /\ (ImageRenamed(cfg) /\ Has(meta, The(cfg.imageField))) =>
                 /\ Has(p, The(cfg.imageOut))
                 /\ ~Has(p, The(cfg.imageField))
                 /\ IF ResolvesImage(cfg, meta)
                    THEN /\ p[The(cfg.imageOut)].t = "id"
                         /\ p[The(cfg.imageOut)].v \in IdsOf("media")
                    ELSE p[The(cfg.imageOut)] = meta[The(cfg.imageField)]

CategoriesWrittenUnderOutputName ==
    /\ mode = "article"
    /\ art.pc = "article_wait"
    /\ CategoryRenamed(input.cfg)
    /\ ResolvesCategories(input.cfg, input.file.meta)
    /\ Len(InputLabels) = 2
    /\ Has(frame[1].payload, "categories")
    /\ Len(frame[1].payload.categories.v) = 2
    /\ ~Has(frame[1].payload, "tags")

----------------------------------------------------------------------------
(* Properties of the article slug *)

(* C16 as stated: the value of the article lookup is the slug held by the  *)
(* payload's slug field, a non-empty string.                               *)
LookupEqualsPayloadSlug ==
    (mode = "article" /\ art.pc = "article_wait") =>
        /\ Has(frame[1].payload, "slug")
        /\ IsStr(frame[1].payload.slug)
        /\ frame[1].payload.slug # <<>>
        /\ frame[1].value = frame[1].payload.slug

(* The slugified components of a prefix joined by hyphens *)
RECURSIVE JoinHyphen(_)
JoinHyphen(parts) ==
    IF parts = <<>> THEN <<>>
    ELSE IF Len(parts) = 1 THEN slugify(parts[1])
    ELSE slugify(parts[1]) \o <<"-">> \o JoinHyphen(Tail(parts))

Contains(s, c) == \E i \in 1..Len(s) : s[i] = c
BeginsWith(s, prefix) == Len(prefix) <= Len(s) /\ SubSeq(s, 1, Len(prefix)) = prefix

GivenPrefix == input.cfg.slugPrefix # None /\ The(input.cfg.slugPrefix) # <<>>

(* C17 as stated: with a prefix the article slug is the slugified prefix   *)
(* components joined by hyphens, a hyphen, and the slugified file stem,    *)
(* and holds no "/".                                                       *)
PrefixedSlugIsFlat ==
    (mode = "article" /\ art.pc = "article_wait" /\ GivenPrefix) =>
        /\ frame[1].value =
              JoinHyphen(Parts(The(input.cfg.slugPrefix), <<>>)) \o <<"-">> \o slugify(input.file.stem)
        /\ ~Contains(frame[1].value, "/")

(* C18 as stated: with a prefix the article slug is the slug built from    *)
(* the front matter with the slugified prefix prepended (joined by "/" or  *)
(* "-"), or that slug unchanged when it already begins with the prefix.    *)
PrefixPrependedToFrontMatterSlug ==
    (mode = "article" /\ art.pc = "article_wait" /\ GivenPrefix) =>
        LET base == Build(input.file.meta, input.file.body).slug
            parts == Parts(The(input.cfg.slugPrefix), <<>>)
            prefixes == {JoinHyphen(parts), SlugifyPath(The(input.cfg.slugPrefix))}
        IN \E q \in prefixes :
              IF BeginsWith(base, q) THEN frame[1].value = base
              ELSE frame[1].value \in {q \o <<"-">> \o base, q \o <<"/">> \o base}

----------------------------------------------------------------------------
(* Properties of slugify *)

SlugChars == LowerChars \cup DigitChars \cup {"e"}

(* s matches [a-z0-9]+(-[a-z0-9]+)* *)
MatchesSlugPattern(s) ==
    /\ s # <<>>
    /\ \A i \in 1..Len(s) : s[i] \in SlugChars \cup {"-"}
    /\ s[1] # "-"
    /\ s[Len(s)] # "-"
    /\ \A i \in 1..(Len(s) - 1) : ~(s[i] = "-" /\ s[i + 1] = "-")

----------------------------------------------------------------------------
(* Properties of upload_articles_from_directory *)

(* The files the pattern matches, and the slug a file is upserted by *)
MatchedFiles ==
    {p \in DOMAIN dir.tree :
        /\ dir.tree[p].isFile
        /\ MatchesPattern(p[Len(p)])
        /\ (dir.recursive \/ Len(p) = 1)}
SlugOfFile(p) == LookupSlug(FileArgs(dir.tree, p, input.cfg))

IsArticleLookup(r) == IsArticleReq(r) /\ r.op = "list"
IsArticleWrite(r) == IsArticleReq(r) /\ r.op \in {"create", "update"}

(* C20: once the files are enumerated they are exactly the matched files,  *)
(* in ascending path order (component by component, each component by      *)
(* code point); the k-th article upsert is the upsert of the k-th file, so  *)
(* no file is upserted twice or out of turn; and a call that returns has    *)
(* issued exactly one article upsert (one lookup and one write) per matched *)
(* file and returns one document per file, the k-th being the k-th file's.  *)
FilesUpsertedOnceInPathOrder ==
    (mode = "directory" /\ dir.pc \in {"loop", "file", "returned"}) =>
        LET lookups == SelectSeq(trace[1], IsArticleLookup)
            writes == SelectSeq(trace[1], IsArticleWrite)
            n == Len(dir.files)
        IN /\ {dir.files[i] : i \in 1..n} = MatchedFiles
           /\ \A i, j \in 1..n : i < j => PathLess(dir.files[i], dir.files[j])
           /\ Len(lookups) <= n
           /\ \A k \in 1..Len(lookups) : lookups[k].value = SlugOfFile(dir.files[k])
           /\ Len(writes) <= Len(lookups)
           /\ \A k \in 1..Len(writes) : writes[k].payload.slug = SlugOfFile(dir.files[k])
           /\ Len(dir.results) = dir.idx
           /\ dir.idx <= Len(writes)
           /\ Len(lookups) <= dir.idx + 1
           /\ \A k \in 1..Len(dir.results) :
                 dir.results[k].fields.slug = SlugOfFile(dir.files[k])
           /\ dir.pc = "returned" =>
                 /\ Len(lookups) = n
                 /\ Len(writes) = n
                 /\ Len(dir.results) = n

(* A call on three matched files, one of them in a folder, has returned *)
ThreeFilesUploaded ==
    /\ mode = "directory"
    /\ dir.pc = "returned"
    /\ Len(dir.results) = 3
    /\ \E i \in 1..3 : Len(dir.files[i]) > 1
    /\ \E i \in 1..3 : Len(dir.files[i]) = 1

(* The files whose processing has begun *)
FilesEntered ==
    dir.idx + (IF dir.pc = "file" \/ (dir.pc = "raised" /\ dir.isDir) THEN 1 ELSE 0)

(* C21 as stated: a failure while one file is processed does not stop the  *)
(* processing of the remaining files, so when the call has ended the       *)
(* processing of every matched file has begun.                             *)
SiblingsProcessedAfterFailure ==
    (mode = "directory" /\ dir.isDir /\ dir.pc \in {"raised", "returned"}) =>
        FilesEntered = Len(dir.files)

----------------------------------------------------------------------------
(* Properties of PayloadRESTClient *)

Requests == trace[1]
IsLoginRequest(r) == r.method = "POST" /\ r.path = <<"users", "login">>
GaveToken(r) ==
    /\ r.response.status = "200"
    /\ r.response.json = "object"
    /\ r.response.token # None
    /\ The(r.response.token) \notin {"", "<number>"}

(* C25 as stated: a delete_document call sends exactly one DELETE request  *)
(* to collection/id, with the Authorization header when a token is set,    *)
(* and returns the empty mapping of a 204 answer.                          *)
DeleteDocumentSendsOneDelete ==
    (mode = "client" /\ cmd.op = "delete_document") =>
        /\ cmd.error \in {"none", "HTTPError"}
        /\ Requests # <<>>
        /\ Requests[Len(Requests)].method = "DELETE"
        /\ Requests[Len(Requests)].path = <<"posts", "123">>
        /\ Truthy(client.token) => Has(Requests[Len(Requests)].headers, "Authorization")

(* C29: a call changes the client's token only if it is a login that       *)
(* returned, its response was a 200 JSON object with a non-empty string    *)
(* token, and the new token is that one; a login that raises (credentials  *)
(* not resolved, error status, no usable token) leaves the client as it    *)
(* was; every login that returns has stored the response's token.          *)
LoginStoresOnlyValidToken ==
    [][(mode = "client" /\ calls' = calls + 1) =>
          /\ client'.token # client.token =>
                /\ cmd'.op = "login"
                /\ cmd'.error = "none"
          /\ (cmd'.op = "login" /\ cmd'.error = "none") =>
                /\ Len(trace'[1]) = Len(trace[1]) + 1
                /\ IsLoginRequest(trace'[1][Len(trace'[1])])
                /\ GaveToken(trace'[1][Len(trace'[1])])
                /\ client'.token = trace'[1][Len(trace'[1])].response.token
          /\ (cmd'.op = "login" /\ cmd'.error # "none") => client' = client
          /\ client'.tokenType = client.tokenType]_vars

(* A login answered with an empty token failed after an earlier login had  *)
(* stored T1, and T1 is still the client's token.                          *)
LoginFailedTokenKept ==
    /\ mode = "client"
    /\ cmd.op = "login"
    /\ cmd.error = "ValueError"
    /\ client.token = Some("T1")
    /\ Len(Requests) = 2
    /\ GaveToken(Requests[1])
    /\ Requests[2].response.token = Some("")

(* The token the client holds when the i-th request is sent: that of the   *)
(* latest earlier login that succeeded, else the constructor's.            *)
HeldBefore(i) ==
    LET good == {j \in 1..(i - 1) : IsLoginRequest(Requests[j]) /\ GaveToken(Requests[j])}
    IN IF good = {} THEN input.cfg.token
       ELSE Requests[CHOOSE j \in good : \A k \in good : k <= j].response.token

(* C30 as stated: a request carries an Authorization header exactly when   *)
(* the client holds a (non-empty) token, and the header is 'Bearer' with   *)
(* the token of the latest successful login (or the constructor's).        *)
RequestsCarryBearerToken ==
    mode = "client" =>
        \A i \in 1..Len(Requests) :
            /\ Has(Requests[i].headers, "Authorization") <=> Truthy(HeldBefore(i))
            /\ Truthy(HeldBefore(i)) =>
                  Requests[i].headers.Authorization = <<"Bearer", The(HeldBefore(i))>>

(* C30 as amended: the header is the client's token type, 'Bearer' unless  *)
(* the client was constructed with another one, with that token.           *)
RequestsCarryTypedToken ==
    mode = "client" =>
        \A i \in 1..Len(Requests) :
            /\ Has(Requests[i].headers, "Authorization") <=> Truthy(HeldBefore(i))
            /\ Truthy(HeldBefore(i)) =>
                  Requests[i].headers.Authorization = <<input.cfg.tokenType, The(HeldBefore(i))>>
            /\ input.cfg.tokenType = "Bearer" =>
                  (Truthy(HeldBefore(i)) =>
                      Requests[i].headers.Authorization = <<"Bearer", The(HeldBefore(i))>>)

(* A login without a token, a second login, then a request with the token *)
(* of the second login                                                    *)
RequestAfterSecondLogin ==
    /\ mode = "client"
    /\ input.cfg.token = None
    /\ Len(Requests) = 3
    /\ ~Has(Requests[1].headers, "Authorization")
    /\ GaveToken(Requests[1]) /\ IsLoginRequest(Requests[1])
    /\ GaveToken(Requests[2]) /\ IsLoginRequest(Requests[2])
    /\ Requests[1].response.token # Requests[2].response.token
    /\ Requests[3].method = "GET"
    /\ Requests[3].headers.Authorization = <<"Bearer", The(Requests[2].response.token)>>

----------------------------------------------------------------------------
(* Properties of the cleanup script *)

CallLog == trace[1]
IsListCall(r) == r.op = "list"
IsDeleteCall(r) == r.op = "delete_document"
ListCalls == SelectSeq(CallLog, IsListCall)
NoListFailed == \A i \in 1..Len(CallLog) : IsListCall(CallLog[i]) => CallLog[i].error = "none"
AllHaveIds(docs) == \A i \in 1..Len(docs) : docs[i].id # None

(* The deletes of a collection that completed without error *)
CompletedDeletes(coll) ==
    Cardinality({i \in 1..Len(CallLog) :
                    /\ IsDeleteCall(CallLog[i])
                    /\ CallLog[i].coll = coll
                    /\ CallLog[i].error = "none"})

(* C22 as stated: with n documents that all have an id, a batch size b and *)
(* list calls that succeed, delete_all_documents deletes the n documents   *)
(* and returns n; when n = b it stops after two list calls.                *)
SweepDeletesAllAndStopsAtShortBatch ==
    (/\ mode = "cleanup"
     /\ cmd.entry = "sweep"
     /\ NoListFailed
     /\ AllHaveIds(input.cfg["posts"])) =>
        /\ cmd.pc = "done" =>
              /\ backend["posts"] = <<>>
              /\ cmd.total = Len(input.cfg["posts"])
        /\ Len(input.cfg["posts"]) = cmd.limit => Len(ListCalls) <= 2

(* C23: the running total, and so the value returned, is the number of     *)
(* delete calls of the sweep that completed without error; a document      *)
(* without an id gets no delete call; clean_payloadcms stores that number. *)
ReturnCountsCompletedDeletes ==
    mode = "cleanup" =>
        /\ cmd.total = CompletedDeletes(cmd.coll)
        /\ \A k \in DOMAIN cmd.results : cmd.results[k] = CompletedDeletes(k)
        /\ \A i \in 1..Len(CallLog) :
              IsDeleteCall(CallLog[i]) =>
                  \E j \in 1..Len(input.cfg[CallLog[i].coll]) :
                      input.cfg[CallLog[i].coll][j].id = Some(CallLog[i].id)

(* delete_all_documents has returned after a batch with a document without *)
(* an id and a document whose delete failed; neither was counted.          *)
SweepReturnedUncounted ==
    /\ mode = "cleanup"
    /\ cmd.entry = "sweep"
    /\ cmd.pc = "done"
    /\ cmd.total = 0
    /\ \E i \in 1..Len(cmd.docs) : cmd.docs[i].id = None
    /\ \E i \in 1..Len(CallLog) : IsDeleteCall(CallLog[i]) /\ CallLog[i].error # "none"

(* The ids of the documents that have one, in order *)
RECURSIVE BatchIds(_)
BatchIds(docs) ==
    IF docs = <<>> THEN <<>>
    ELSE IF Head(docs).id = None THEN BatchIds(Tail(docs))
    ELSE <<The(Head(docs).id)>> \o BatchIds(Tail(docs))

(* The delete calls made since the last list call *)
AttemptsOfPass ==
    LET lists == {i \in 1..Len(CallLog) : IsListCall(CallLog[i])}
        last == IF lists = {} THEN 0 ELSE CHOOSE i \in lists : \A j \in lists : j <= i
    IN [k \in 1..(Len(CallLog) - last) |-> CallLog[last + k].id]

(* C24: while a batch is processed the delete calls of the pass are those  *)
(* of the documents with an id seen so far, one each and in order, though  *)
(* earlier ones failed; at the end of the batch every one has had its call. *)
EveryDocOfBatchAttemptedOnce ==
    (mode = "cleanup" /\ cmd.pc = "batch" /\ ~cmd.over) =>
        /\ cmd.i <= Len(cmd.docs) + 1
        /\ AttemptsOfPass = BatchIds(SubSeq(cmd.docs, 1, cmd.i - 1))

(* A batch of three documents is finished, the first delete failed and the *)
(* other two were attempted all the same.                                  *)
BatchFinishedAfterFailures ==
    /\ mode = "cleanup"
    /\ cmd.pc = "batch"
    /\ cmd.i > Len(cmd.docs)
    /\ Len(AttemptsOfPass) = 3
    /\ CallLog[Len(CallLog) - 2].error # "none"

(* The place of a collection in the order posts, media, categories *)
Rank(coll) == CASE coll = "posts" -> 1 [] coll = "media" -> 2 [] coll = "categories" -> 3

(* C26: clean_payloadcms touches only the selected collections, all calls  *)
(* on posts precede all calls on media, and those all calls on categories; *)
(* a sweep is running only while no later collection has been touched; the *)
(* mapping returned has exactly the selected collections as keys, each     *)
(* swept, each holding the deletion count of its sweep.                    *)
SweepsInFixedOrder ==
    (mode = "cleanup" /\ cmd.entry = "clean") =>
        /\ \A i \in 1..Len(CallLog) : CallLog[i].coll \in cmd.selected
        /\ \A i, j \in 1..Len(CallLog) :
              i < j => Rank(CallLog[i].coll) <= Rank(CallLog[j].coll)
        /\ cmd.pc \in {"list", "batch", "return"} =>
              \A i \in 1..Len(CallLog) : Rank(CallLog[i].coll) <= Rank(cmd.coll)
        /\ cmd.pc = "done" =>
              /\ DOMAIN cmd.results = cmd.selected
              /\ \A k \in cmd.selected :
                    /\ cmd.results[k] = CompletedDeletes(k)
                    /\ \E i \in 1..Len(CallLog) : IsListCall(CallLog[i]) /\ CallLog[i].coll = k

(* clean_payloadcms returned after sweeping all three collections *)
ThreeCollectionsSwept ==
    /\ mode = "cleanup"
    /\ cmd.entry = "clean"
    /\ cmd.pc = "done"
    /\ DOMAIN cmd.results = {"posts", "media", "categories"}
    /\ Len(ListCalls) = 3
    /\ \E i \in 1..Len(CallLog) : IsDeleteCall(CallLog[i]) /\ CallLog[i].coll = "posts"

Confirmed == cmd.yes \/ cmd.answer \in {"yes", "y", "YES", "Y"}

(* C27 as stated: the command exits with 0 when the user cancels and when, *)
(* after confirmation, the backend accepts the credentials and every list  *)
(* call succeeds.                                                          *)
ExitZeroUnlessFailure ==
    (mode = "cleanup" /\ cmd.entry = "main" /\ cmd.pc = "exited") =>
        /\ ~Confirmed => cmd.exit = Some(0)
        /\ (Confirmed /\ cmd.accepts /\ NoListFailed) => cmd.exit = Some(0)

(* C28: the command makes a list or delete call, or is inside the cleanup, *)
(* only after the confirmation and a login that stored a token; a run      *)
(* whose login failed has exit code 1 and an empty call log.               *)
NoSweepWithoutConfirmedLogin ==
    (mode = "cleanup" /\ cmd.entry = "main") =>
        /\ (\E i \in 1..Len(CallLog) : IsListCall(CallLog[i]) \/ IsDeleteCall(CallLog[i]))
              => (Confirmed /\ Truthy(client.token))
        /\ cmd.pc \in {"clean", "next", "list", "batch", "return"}
              => (Confirmed /\ Truthy(client.token))
        /\ (cmd.pc = "exited" /\ Confirmed /\ ~Truthy(client.token)) =>
              /\ cmd.exit = Some(1)
              /\ \A i \in 1..Len(CallLog) : ~IsListCall(CallLog[i]) /\ ~IsDeleteCall(CallLog[i])

(* A confirmed run on non-empty collections ended with code 1 at the login *)
LoginFailedNothingTouched ==
    /\ mode = "cleanup"
    /\ cmd.entry = "main"
    /\ cmd.pc = "exited"
    /\ Confirmed
    /\ cmd.exit = Some(1)
    /\ cmd.selected = {"posts", "media", "categories"}
    /\ Len(backend["posts"]) = 3
    /\ CallLog = <<>>

----------------------------------------------------------------------------
(* Validation in ensure_categories *)

(* A label that is not a string, or is empty or whitespace only *)
BadLabel(name) == ~IsStr(name) \/ Strip(name) = <<>>

(* C35: when a label of the input is not a string or is empty or           *)
(* whitespace only, ensure_categories never reaches its upsert loop and    *)
(* never returns, no request of the call is logged, and after validation   *)
(* the call has raised TypeError or ValueError.                            *)
BadLabelRaisesBeforeAnyRequest ==
    (/\ mode = "categories"
     /\ ens.pc # "idle"
     /\ \E i \in 1..Len(ens.input) : BadLabel(ens.input[i])) =>
        /\ ens.pc \in {"validate", "failed"}
        /\ ens.pc = "failed" => ens.error \in {"TypeError", "ValueError"}
        /\ trace[1] = <<>>
        /\ pc[1] = "idle"

(* The call raised on its third label after two valid ones, on a backend   *)
(* that holds documents                                                    *)
RaisedOnThirdLabel ==
    /\ mode = "categories"
    /\ ens.pc = "failed"
    /\ Len(ens.input) = 3
    /\ ~BadLabel(ens.input[1])
    /\ ~BadLabel(ens.input[2])
    /\ BadLabel(ens.input[3])
    /\ backend["categories"] # <<>>
    /\ trace[1] = <<>>

----------------------------------------------------------------------------
(* Termination and errors of delete_all_documents *)

(* C36 as stated: every call of delete_all_documents returns, whatever     *)
(* documents lack an id and whatever deletes fail.                         *)
SweepTerminates ==
    (mode = "cleanup" /\ cmd.entry = "sweep") ~> (cmd.pc = "done")

----------------------------------------------------------------------------
(* Media documents over several runs *)

(* The stored media documents the pipeline created *)
UploadedMedia == {i \in 1..Len(backend["media"]) : backend["media"][i].by = 1}

(* The stored articles the pipeline wrote whose featured image is the      *)
(* media document at index i                                               *)
ArticlesReferencing(i) ==
    {j \in 1..Len(backend["posts"]) :
        /\ backend["posts"][j].by = 1
        /\ Has(backend["posts"][j].fields, "featuredImage")
        /\ backend["media"][i].id # None
        /\ backend["posts"][j].fields["featuredImage"] = IdVal(The(backend["media"][i].id))}

(* C39 as stated: a media document the pipeline uploaded and a written     *)
(* article references holds the alt and caption of the follow-up update.   *)
ReferencedUploadsHaveAltCaption ==
    mode = "article" =>
        \A i \in UploadedMedia :
            ArticlesReferencing(i) # {} =>
                AltCaptionKeys \subseteq DOMAIN backend["media"][i].fields

----------------------------------------------------------------------------
(* The category ids written to the article *)

NoRepeat(ids) == \A i, j \in 1..Len(ids) : ids[i] = ids[j] => i = j

(* C40 as stated: the list of category ids in the payload passed to the    *)
(* article upsert holds no id twice, in flat and in hierarchical mode.     *)
CategoryIdsDistinct ==
    (mode = "article" /\ art.pc = "article_wait") =>
        ((/\ input.cfg.catField # None
          /\ Has(frame[1].payload, CategoryName(input.cfg))
          /\ frame[1].payload[CategoryName(input.cfg)].t = "ids") =>
             NoRepeat(frame[1].payload[CategoryName(input.cfg)].v))

----------------------------------------------------------------------------
(* Front matter that is not a mapping *)

(* C34 as stated: parse_article_file raises whenever the metadata block    *)
(* parses to a value that is not a mapping, and a document is returned     *)
(* only when the parsed value is a mapping.                                *)
NonMappingMetadataFails ==
    (mode = "parse" /\ cmd.pc # "idle" /\ input.file.opens /\ input.file.closes) =>
        (cmd.pc = "returned" <=> SafeLoad(input.file.meta).type = "dict")

----------------------------------------------------------------------------
(* Properties of html_to_lexical *)

Nodes == cmd.conv.nodes
IsTextLeaf(node) == node.type \in {"text", "link"}

(* bold = 1, italic = 2, code = 16 over a set of formats *)
BitsOf(kinds) ==
    (IF "bold" \in kinds THEN 1 ELSE 0) + (IF "italic" \in kinds THEN 2 ELSE 0)
      + (IF "code" \in kinds THEN 16 ELSE 0)

(* C31 as stated: the format of every text or link node is the OR of the   *)
(* bits of the formatting elements open where its text stands.             *)
FormatIsOpenFormats ==
    mode = "lexical" =>
        \A i \in 1..Len(Nodes) :
            IsTextLeaf(Nodes[i]) => Nodes[i].format = BitsOf(cmd.openAt[i])

(* The texts of the returned tree, in document order *)
RECURSIVE TextsOf(_, _, _)
TextsOf(nodes, keep, i) ==
    IF i > Len(nodes) THEN <<>>
    ELSE (IF i \in keep /\ IsTextLeaf(nodes[i]) THEN nodes[i].text ELSE <<>>)
            \o TextsOf(nodes, keep, i + 1)

(* C32 as stated: the returned tree holds the text fed outside script,     *)
(* style and iframe elements, all of it and nothing else.                  *)
TextOutsideIgnoredIsEmitted ==
    (mode = "lexical" /\ cmd.pc = "done") =>
        TextsOf(Nodes, cmd.output, 1) = cmd.outside

(* C33: in the returned tree every node with a children list has a child   *)
(* in the tree, the parent of every node of the tree is the root or in the *)
(* tree, and every text or link node created during the scan is in it.     *)
NoEmptyChildrenTextKept ==
    (mode = "lexical" /\ cmd.pc = "done") =>
        /\ \A i \in cmd.output :
              /\ HasChildrenKey(Nodes[i]) =>
                    \E j \in cmd.output : Nodes[j].parent = i
              /\ Nodes[i].parent = 0 \/ Nodes[i].parent \in cmd.output
        /\ \A i \in 1..Len(Nodes) : IsTextLeaf(Nodes[i]) => i \in cmd.output

(* A list was pruned together with its only item, next to a paragraph that *)
(* was kept with its text.                                                 *)
EmptyListPrunedTextKept ==
    /\ mode = "lexical"
    /\ cmd.pc = "done"
    /\ \E i, j \in 1..Len(Nodes) :
          /\ Nodes[i].type = "list"
          /\ Nodes[j].type = "listitem"
          /\ Nodes[j].parent = i
          /\ i \notin cmd.output
          /\ j \notin cmd.output
    /\ \E i \in cmd.output : IsTextLeaf(Nodes[i])

(* The open block and list elements that are not inside an ignored element *)
RECURSIVE VisibleBlocks(_)
VisibleBlocks(open) ==
    IF open = <<>> \/ Head(open) \in IgnoreTags THEN <<>>
    ELSE (IF Head(open) \in BlockTags \cup ListTags THEN <<Head(open)>> ELSE <<>>)
            \o VisibleBlocks(Tail(open))

(* C38 as stated: the node an end tag pops was created by a start tag of   *)
(* the same name, and the construction stack holds the nodes of the open   *)
(* blocks and lists, so nothing is nested in a closed one.                 *)
EndTagClosesItsOwnNode ==
    mode = "lexical" =>
        /\ cmd.lastPop # <<>> => cmd.lastPop[1] = cmd.lastPop[2]
        /\ [k \in 1..Len(cmd.conv.stack) |-> Nodes[cmd.conv.stack[k]].tag]
              = VisibleBlocks(cmd.open)

====
